---------------------------- MODULE Spec2Model ----------------------------
(***************************************************************************)
(* A model of the virtual machine of Operative-System-Proyect: the word    *)
(* codec and register file (REGISTERS), the memory unit (MEMORY), the      *)
(* interrupt controller (INTERRUPTS), the DMA controller with its worker   *)
(* threads (DMA) and the CPU cycle (CPU).                                   *)
(*                                                                         *)
(* A Word (char data[9]) is a sequence of one-character strings.  The      *)
(* memory array is kept as a finite map holding only the cells whose       *)
(* content differs from what init_memory left in them (Cell reads through  *)
(* it), which is the same array in a form TLC can store.                   *)
(***************************************************************************)
EXTENDS Integers, Sequences, FiniteSets, TLC

VARIABLES
    cpu_registers,       \* CPU_Registers, PSW included
    memory,              \* Word memory[MEMORY_SIZE]
    pending_interrupts,  \* int pending_interrupts[9]
    dma,                 \* DMA_Controller (bus_lock apart)
    bus_lock,            \* dma.bus_lock: 0 free, else the thread holding it
    threads,             \* the transfer_thread instances created so far
    cpu_state,           \* CPU_State
    cpu_pc,              \* where the foreground thread stands
    instr,               \* the Instruction fetch_instruction returned
    sweep_i,             \* loop index of handle_pending_interrupts
    obs,                 \* what the last call made at the API returned
    hist,                \* history of the run (dispatch log, counters)
    hard_disk            \* hard_disk.data: the sectors written since init_disk

vars == <<cpu_registers, memory, pending_interrupts, dma, bus_lock, threads,
          cpu_state, cpu_pc, instr, sweep_i, obs, hist, hard_disk>>

---------------------------------------------------------------------------
(* Program constants *)

MEMORY_SIZE == 2000
OS_RESERVED == 300
TRACKS == 10
CYLINDERS == 10
SECTORS_PER_CYLINDER == 100
USER_MODE == 0
KERNEL_MODE == 1

INT_INVALID_SYSCALL == 0
INT_INVALID_INTERRUPT == 1
INT_SYSCALL == 2
INT_TIMER == 3
INT_IO_COMPLETION == 4
INT_INVALID_INSTRUCTION == 5
INT_INVALID_ADDRESS == 6
INT_UNDERFLOW == 7
INT_OVERFLOW == 8

ADDR_DIRECT == 0
ADDR_IMMEDIATE == 1
ADDR_INDEXED == 2

\* Largest magnitude of a word: seven decimal digits.
WORD_MAX == 9999999
\* PC_psw is a 10-bit field and condition_code a 4-bit field: what they hold
\* is the value assigned modulo these.
PC_PSW_MOD == 1024
CC_MOD == 16
\* The bounds of int (32 bits, two's complement).
INT_MAX == 2147483647
INT_MIN == - INT_MAX - 1

\* C's abs() on int: abs(INT_MIN) has no representable result and stays INT_MIN.
CAbs(x) == IF x = INT_MIN THEN INT_MIN ELSE IF x < 0 THEN - x ELSE x

\* - x in int arithmetic.
Neg32(x) == IF x = INT_MIN THEN INT_MIN ELSE - x

(* a * b in int arithmetic for |a|, |b| < 2^24, computed on 12-bit limbs so  *)
(* that no intermediate value leaves 32 bits: the product is reduced modulo *)
(* 2^32 as the usual build does on signed overflow.                         *)
Mul32(a, b) ==
    LET x == IF a < 0 THEN - a ELSE a
        y == IF b < 0 THEN - b ELSE b
        x1 == x \div 4096
        x0 == x % 4096
        y1 == y \div 4096
        y0 == y % 4096
        t0 == x0 * y0
        t1 == x1 * y0 + x0 * y1
        t2 == x1 * y1
        low == t0 + (t1 % 16) * 4096
        L == low % 65536
        H == ((low \div 65536) + (t1 \div 16) + (t2 % 256) * 256) % 65536
        p == (IF H >= 32768 THEN H - 65536 ELSE H) * 65536 + L
    IN  IF (a < 0) = (b < 0) THEN p ELSE Neg32(p)

\* C's integer division, truncating toward zero (b # 0, b # INT_MIN).
CDiv(a, b) ==
    LET d == IF b < 0 THEN - b ELSE b
        f == a \div d
        q == IF a < 0 /\ a % d # 0 THEN f + 1 ELSE f
    IN  IF b < 0 THEN Neg32(q) ELSE q

\* C's remainder: a % b has the sign of a.
CRem(a, b) == a - b * CDiv(a, b)

---------------------------------------------------------------------------
(* Characters and strings *)

Digits == <<"0", "1", "2", "3", "4", "5", "6", "7", "8", "9">>
DigitSet == {Digits[i] : i \in 1..10}
IsDigit(c) == c \in DigitSet
DigitVal(c) == CHOOSE d \in 0..9 : Digits[d + 1] = c

Letters == <<"A", "B", "C", "D", "E", "F", "G", "H", "I", "J", "K", "L", "M",
             "N", "O", "P", "Q", "R", "S", "T", "U", "V", "W", "X", "Y", "Z">>

\* The character code, as far as the model's words need it ('0' is 48).
CharCode(c) ==
    IF IsDigit(c) THEN 48 + DigitVal(c)
    ELSE IF \E k \in 1..26 : Letters[k] = c
         THEN 64 + (CHOOSE k \in 1..26 : Letters[k] = c)
    ELSE IF c = "_" THEN 95
    ELSE IF c = "-" THEN 45
    ELSE IF c = "+" THEN 43
    ELSE 32

\* The value of the leading decimal digits of s (0 when there is none).
RECURSIVE LeadingDigits(_, _)
LeadingDigits(s, acc) ==
    IF s = <<>> \/ ~ IsDigit(Head(s)) THEN acc
    ELSE LeadingDigits(Tail(s), 10 * acc + DigitVal(Head(s)))

\* atoi: leading blanks, an optional sign, then the leading digits.
RECURSIVE atoi(_)
atoi(s) ==
    IF s = <<>> THEN 0
    ELSE IF Head(s) = " " THEN atoi(Tail(s))
    ELSE IF Head(s) = "-" THEN - LeadingDigits(Tail(s), 0)
    ELSE IF Head(s) = "+" THEN LeadingDigits(Tail(s), 0)
    ELSE LeadingDigits(s, 0)

\* The decimal digits of n >= 0, most significant first.
RECURSIVE DecDigits(_)
DecDigits(n) ==
    IF n < 10 THEN <<Digits[n + 1]>>
    ELSE DecDigits(n \div 10) \o <<Digits[(n % 10) + 1]>>

\* The decimal digits of |n| for n < 0, computed without negating n.
RECURSIVE NegDigits(_)
NegDigits(n) ==
    LET d == (10 - (n % 10)) % 10
        q == (n + d) \div 10
    IN  IF q = 0 THEN <<Digits[d + 1]>> ELSE NegDigits(q) \o <<Digits[d + 1]>>

RECURSIVE ZeroPad(_, _)
ZeroPad(s, width) == IF Len(s) >= width THEN s ELSE ZeroPad(<<"0">> \o s, width)

\* printf's %0<width>d: the sign first, then zeros up to the width.
FormatD(n, width) ==
    IF n < 0 THEN <<"-">> \o ZeroPad(NegDigits(n), width - 1)
    ELSE ZeroPad(DecDigits(n), width)

\* strncpy(dst, s, n) followed by a terminator: the first n characters of s.
Take(s, n) == SubSeq(s, 1, IF Len(s) < n THEN Len(s) ELSE n)

ZERO_WORD == <<"0", "0", "0", "0", "0", "0", "0", "0">>
OVERFLOW_WORD == <<"O", "V", "E", "R", "F", "L", "O", "W">>
MEM_ERR_WORD == <<"M", "E", "M", "_", "E", "R", "R">>
ADDR_ERR_WORD == <<"A", "D", "D", "R", "_", "E", "R", "R">>
PRIV_ERR_WORD == <<"P", "R", "I", "V", "_", "E", "R", "R">>
OS_RESERVED_WORD == <<"O", "S", "_", "R", "E", "S", "E", "R", "V", "E", "D">>

---------------------------------------------------------------------------
(* REGISTERS: the word codec *)

\* A conversion that answers -1 for a word that is not 8 characters long:
\* what C33 rests on.
WordToIntFlagging(w) ==
    IF Len(w) # 8 THEN -1
    ELSE IF w[1] = "1" THEN - atoi(SubSeq(w, 2, 8))
    ELSE atoi(SubSeq(w, 2, 8))

word_to_int(w) ==
    IF Len(w) # 8 THEN 0
    ELSE IF w[1] = "1" THEN - atoi(SubSeq(w, 2, 8))
    ELSE atoi(SubSeq(w, 2, 8))

(* int_to_word.  For value = INT_MIN, abs(value) overflows: it stays        *)
(* INT_MIN, passes the test against 9999999, and sprintf writes the 11     *)
(* characters of "-2147483648" and a terminator into magnitude[8].  The    *)
(* four bytes written past the array may land on `sign`: clobber is the    *)
(* character that leaves in it ("" for a zero byte, "keep" for no damage). *)
SignAndMagnitude(sign, magnitude, clobber) ==
    IF Len(magnitude) > 7 /\ clobber = "" THEN <<>>
    ELSE IF Len(magnitude) > 7 /\ clobber # "keep" THEN <<clobber>> \o Take(magnitude, 7)
    ELSE <<sign>> \o Take(magnitude, 7)

int_to_word_ub(value, clobber) ==
    IF CAbs(value) > WORD_MAX THEN OVERFLOW_WORD
    ELSE SignAndMagnitude(IF value < 0 THEN "1" ELSE "0", FormatD(CAbs(value), 7),
                          clobber)

\* What the overrun of magnitude[8] can leave in `sign`.
Clobbers == {"keep", "8", ""}

\* int_to_word on a value other than INT_MIN, where no overrun happens.
int_to_word(value) == int_to_word_ub(value, "keep")

---------------------------------------------------------------------------
(* REGISTERS: the register file *)

\* init_registers: the word registers are "00000000" (PC, which it does not
\* touch, keeps the zero bytes of a global), the PSW starts in kernel mode
\* with interrupts disabled and its program counter at OS_RESERVED.
init_registers ==
    [AC |-> ZERO_WORD, MAR |-> ZERO_WORD, MDR |-> ZERO_WORD, IR |-> ZERO_WORD,
     RB |-> ZERO_WORD, RL |-> ZERO_WORD, RX |-> ZERO_WORD, SP |-> ZERO_WORD,
     PC |-> <<>>,
     PSW |-> [condition_code |-> 0, operation_mode |-> KERNEL_MODE,
              interrupt_enabled |-> 0, PC_psw |-> OS_RESERVED % PC_PSW_MOD]]

update_condition_code(regs, result) ==
    IF result = 0 THEN [regs EXCEPT !.PSW.condition_code = 0]
    ELSE IF result < 0 THEN [regs EXCEPT !.PSW.condition_code = 1]
    ELSE [regs EXCEPT !.PSW.condition_code = 2]

Clamp(v, lo, hi) == IF v < lo THEN lo ELSE IF v > hi THEN hi ELSE v

\* set_PC_int: PC as a Word and its mirror in the PSW, clamped to 0..1023.
set_PC_int(regs, pc_int) ==
    [regs EXCEPT !.PC = int_to_word(pc_int),
                 !.PSW.PC_psw = Clamp(pc_int, 0, PC_PSW_MOD - 1)]

---------------------------------------------------------------------------
(* The machine the memory unit and the interrupt controller work on:       *)
(* m.regs (cpu_registers), m.mem (memory), m.pend (pending_interrupts) and *)
(* m.raised, the codes trigger_interrupt was called with during the call.  *)

Machine(regs, mem, pend) == [regs |-> regs, mem |-> mem, pend |-> pend, raised |-> {}]

(* INTERRUPTS *)

init_interrupts == [c \in 0..8 |-> 0]

\* trigger_interrupt that counts on top of the flag: what C22 rests on.
RaiseCounting(m, c) ==
    [m EXCEPT !.raised = @ \cup {c},
              !.pend = IF m.regs.PSW.interrupt_enabled # 0
                       THEN [@ EXCEPT ![c] = @ + 1] ELSE @]

\* trigger_interrupt on a code in 0..8.
Raise(m, c) ==
    [m EXCEPT !.raised = @ \cup {c},
              !.pend = IF m.regs.PSW.interrupt_enabled # 0
                       THEN [@ EXCEPT ![c] = 1] ELSE @]

\* trigger_interrupt that raises nothing: what C20 rests on.
TriggerNothing(m, code) == m

trigger_interrupt(m, code) ==
    Raise(m, IF code < 0 \/ code > 8 THEN INT_INVALID_INTERRUPT ELSE code)

\* interrupt_vector[i](): what the handler of code i does to the registers.
interrupt_vector(regs, i) ==
    IF i = INT_SYSCALL THEN [regs EXCEPT !.PSW.operation_mode = 1]
    ELSE IF i = INT_UNDERFLOW THEN [regs EXCEPT !.PSW.condition_code = 7 % CC_MOD]
    ELSE IF i = INT_OVERFLOW THEN [regs EXCEPT !.PSW.condition_code = 3]
    ELSE regs

---------------------------------------------------------------------------
(* MEMORY *)

(* What init_memory leaves in cell a.  strcpy writes the 12 bytes of       *)
(* "OS_RESERVED" into each 9-byte cell below OS_RESERVED, over the start   *)
(* of the next one: the last copy leaves "ED" in cell OS_RESERVED.  A      *)
(* reserved cell is shown as the full text (it has no terminator of its    *)
(* own, so its length as a string is never 8).                             *)
InitCell(a) ==
    IF a < OS_RESERVED THEN OS_RESERVED_WORD
    ELSE IF a = OS_RESERVED THEN <<"E", "D">>
    ELSE ZERO_WORD

init_memory == [a \in {} |-> ZERO_WORD]

\* memory[a], for 0 <= a < MEMORY_SIZE.
Cell(mem, a) == IF a \in DOMAIN mem THEN mem[a] ELSE InitCell(a)

\* memory[a] = w.
Store(mem, a, w) ==
    LET dom == IF w = InitCell(a) THEN DOMAIN mem \ {a} ELSE DOMAIN mem \cup {a}
    IN  [x \in dom |-> IF x = a THEN w ELSE mem[x]]

\* The translation without the test against RB + RL: what C6 rests on.
TranslateUnbounded(m, logical_address, rb_value, rl_value) ==
    IF rb_value = 0 /\ rl_value = 0
    THEN [m |-> m, phys |-> logical_address]
    ELSE IF logical_address + rb_value < rb_value
    THEN [m |-> trigger_interrupt(m, INT_INVALID_ADDRESS), phys |-> -1]
    ELSE [m |-> m, phys |-> logical_address + rb_value]

\* logical_to_physical once RB and RL have been read.
Translate(m, logical_address, rb_value, rl_value) ==
    IF rb_value = 0 /\ rl_value = 0
    THEN [m |-> m, phys |-> logical_address]
    ELSE IF logical_address + rb_value < rb_value
            \/ logical_address + rb_value >= rb_value + rl_value
    THEN [m |-> trigger_interrupt(m, INT_INVALID_ADDRESS), phys |-> -1]
    ELSE [m |-> m, phys |-> logical_address + rb_value]

\* logical_to_physical: [m, phys], phys = -1 on a violation.
logical_to_physical(m, logical_address) ==
    Translate(m, logical_address, word_to_int(m.regs.RB), word_to_int(m.regs.RL))

\* read_memory without the test on the mode: what C12 rests on.
ReadAtUnprotected(t) ==
    IF t.phys < 0
    THEN [m |-> t.m, word |-> MEM_ERR_WORD]
    ELSE IF t.phys >= MEMORY_SIZE
    THEN [m |-> t.m, word |-> ADDR_ERR_WORD]
    ELSE [m |-> t.m, word |-> Cell(t.m.mem, t.phys)]

\* read_memory from the translation t on: [m, word].
ReadAt(t) ==
    IF t.phys < 0
    THEN [m |-> t.m, word |-> MEM_ERR_WORD]
    ELSE IF t.phys >= MEMORY_SIZE
    THEN [m |-> t.m, word |-> ADDR_ERR_WORD]
    ELSE IF t.phys < OS_RESERVED /\ t.m.regs.PSW.operation_mode = USER_MODE
    THEN [m |-> trigger_interrupt(t.m, INT_INVALID_ADDRESS), word |-> PRIV_ERR_WORD]
    ELSE [m |-> t.m, word |-> Cell(t.m.mem, t.phys)]

\* read_memory: [m, word].
read_memory(m, logical_address) == ReadAt(logical_to_physical(m, logical_address))

\* write_memory without the test against MEMORY_SIZE: what C39 rests on.
CheckAtUnbounded(t) ==
    IF t.phys < 0 THEN [m |-> t.m, phys |-> -1]
    ELSE IF t.phys < OS_RESERVED /\ t.m.regs.PSW.operation_mode = USER_MODE
    THEN [m |-> trigger_interrupt(t.m, INT_INVALID_ADDRESS), phys |-> -1]
    ELSE [m |-> t.m, phys |-> t.phys]

\* write_memory from the translation t up to its last check.
CheckAt(t) ==
    IF t.phys < 0 THEN [m |-> t.m, phys |-> -1]
    ELSE IF t.phys >= MEMORY_SIZE THEN [m |-> t.m, phys |-> -1]
    ELSE IF t.phys < OS_RESERVED /\ t.m.regs.PSW.operation_mode = USER_MODE
    THEN [m |-> trigger_interrupt(t.m, INT_INVALID_ADDRESS), phys |-> -1]
    ELSE [m |-> t.m, phys |-> t.phys]

\* write_memory up to its last check: [m, phys], phys = -1 when the call
\* returns without writing.
write_memory_check(m, logical_address) ==
    CheckAt(logical_to_physical(m, logical_address))

\* memory[physical_address] = word, when the checks c let the call come to it.
StoreAt(c, word) ==
    IF c.phys < 0 THEN c.m ELSE [c.m EXCEPT !.mem = Store(@, c.phys, word)]

\* write_memory: the machine after the call.
write_memory(m, logical_address, word) ==
    StoreAt(write_memory_check(m, logical_address), word)

set_memory_region(regs, base, limit) ==
    [regs EXCEPT !.RB = int_to_word(base), !.RL = int_to_word(limit)]

---------------------------------------------------------------------------
(* DMA *)

DMA_IDLE == 0
DMA_READING == 1
DMA_WRITING == 2
DMA_ERROR == 3

init_dma ==
    [memory_address |-> 0, disk_track |-> 0, disk_cylinder |-> 0,
     disk_sector |-> 0, io_operation |-> 0, bytes_to_transfer |-> 1,
     state |-> DMA_IDLE, status |-> 0, thread |-> 0]

dma_set_memory_address(d, address) ==
    IF address < 0 \/ address >= MEMORY_SIZE THEN d
    ELSE [d EXCEPT !.memory_address = address]

dma_set_disk_location(d, track, cylinder, sector) ==
    IF track < 0 \/ track >= TRACKS
       \/ cylinder < 0 \/ cylinder >= CYLINDERS
       \/ sector < 0 \/ sector >= SECTORS_PER_CYLINDER
    THEN d
    ELSE [d EXCEPT !.disk_track = track, !.disk_cylinder = cylinder,
                   !.disk_sector = sector]

dma_set_io_operation(d, operation) ==
    IF operation # 0 /\ operation # 1 THEN d
    ELSE [d EXCEPT !.io_operation = operation]

\* dma_set_transfer_size without its test: what C23 rests on.
SetSizeUnchecked(d, size) == [d EXCEPT !.bytes_to_transfer = size]

dma_set_transfer_size(d, size) ==
    IF size <= 0 THEN d ELSE [d EXCEPT !.bytes_to_transfer = size]

\* A transfer_thread that pthread_create has just made.
NewThread == [pc |-> "request", i |-> 0, phys |-> -1, word |-> <<>>, ok |-> FALSE]

(* dma_start_transfer: [dma, threads].  created is what pthread_create     *)
(* answers; dma.thread is the index in thrs of the thread it made.         *)
dma_start_transfer(d, thrs, created) ==
    IF d.state # DMA_IDLE THEN [dma |-> d, threads |-> thrs]
    ELSE IF d.memory_address < 0 \/ d.memory_address >= MEMORY_SIZE
    THEN [dma |-> [d EXCEPT !.status = 1, !.state = DMA_ERROR], threads |-> thrs]
    ELSE IF ~ created
    THEN [dma |-> [d EXCEPT !.status = 1, !.state = DMA_ERROR], threads |-> thrs]
    ELSE [dma |-> [d EXCEPT !.thread = Len(thrs) + 1],
          threads |-> Append(thrs, NewThread)]

dma_get_status(d) == d.status

(* hard_disk.data as a function from <<track, cylinder, sector>> to the    *)
(* text of the sector, for the sectors written since init_disk; every      *)
(* other sector holds the "00000000" init_disk put there.                  *)
init_disk == [loc \in {} |-> ZERO_WORD]

\* hard_disk.data[track][cylinder][sector].
Sector(disk, loc) == IF loc \in DOMAIN disk THEN disk[loc] ELSE ZERO_WORD

\* write_sector: strcpy into the sector when the coordinates are valid.
write_sector(disk, track, cylinder, sector, data) ==
    IF track < 0 \/ track >= TRACKS
       \/ cylinder < 0 \/ cylinder >= CYLINDERS
       \/ sector < 0 \/ sector >= SECTORS_PER_CYLINDER
    THEN disk
    ELSE [loc \in DOMAIN disk \cup {<<track, cylinder, sector>>} |->
            IF loc = <<track, cylinder, sector>> THEN data ELSE disk[loc]]

\* A dma_disk_write that stores the word with write_sector: what C37 rests on.
DmaDiskWriteStoring(disk, track, cylinder, sector, data) ==
    write_sector(disk, track % 100, cylinder % 100, sector % 1000, data)

\* dma_disk_write: the coordinates are reduced and the operation is logged;
\* the disk is as it was.
dma_disk_write(disk, track, cylinder, sector, data) == disk

\* dma_disk_read: the eight characters it leaves in buffer.
dma_disk_read(track, cylinder, sector) ==
    Take(<<"T">> \o FormatD(track % 100, 2) \o <<"C">> \o FormatD(cylinder % 100, 2)
         \o <<"S">> \o FormatD(sector % 1000, 3), 8)

\* The threads that have not returned from transfer_thread.
Alive(thrs) == {t \in 1..Len(thrs) : thrs[t].pc # "done"}

\* The threads between dma_bus_request and dma_bus_release.
OnBus(thrs) ==
    {t \in 1..Len(thrs) : thrs[t].pc \in {"begin", "loop", "store", "finish", "release"}}

---------------------------------------------------------------------------
(* CPU *)

CPU_RUNNING == 0
CPU_HALTED == 1

\* a & b on two's-complement ints.
RECURSIVE BitAnd(_, _)
BitAnd(a, b) ==
    IF a = 0 \/ b = 0 THEN 0
    ELSE IF a = -1 THEN b
    ELSE IF b = -1 THEN a
    ELSE 2 * BitAnd(a \div 2, b \div 2) + (a % 2) * (b % 2)

\* Every mode taken as the indexed one: what C15 rests on.
EffectiveAddressIndexed(regs, mode, value) == word_to_int(regs.AC) + value

calculate_effective_address(regs, mode, value) ==
    IF mode = ADDR_DIRECT THEN value
    ELSE IF mode = ADDR_IMMEDIATE THEN value
    ELSE IF mode = ADDR_INDEXED THEN word_to_int(regs.AC) + value
    ELSE -1

MakeInstr(regs, opcode, mode, value) ==
    [opcode |-> opcode, mode |-> mode, value |-> value,
     effective_address |-> calculate_effective_address(regs, mode, value)]

(* decode_instruction.  A word that is not 8 characters long gives opcode  *)
(* -1 and leaves the other fields unset; execute_instruction returns on    *)
(* opcode -1 before it reads them, so they are shown as 0.                 *)
decode_instruction(regs, instruction_word) ==
    IF Len(instruction_word) # 8
    THEN [opcode |-> -1, mode |-> 0, value |-> 0, effective_address |-> 0]
    ELSE MakeInstr(regs, atoi(SubSeq(instruction_word, 1, 2)),
                   CharCode(instruction_word[3]) - 48,
                   atoi(SubSeq(instruction_word, 4, 8)))

\* MDR and IR take the word read; PC_psw++ (it wraps in its 10 bits);
\* set_PC_int(PC_psw).
FetchAdvance(regs, word) ==
    set_PC_int([regs EXCEPT !.MDR = word, !.IR = word,
                            !.PSW.PC_psw = (@ + 1) % PC_PSW_MOD],
               (regs.PSW.PC_psw + 1) % PC_PSW_MOD)

FetchRead(m) == read_memory(m, word_to_int(m.regs.MAR))

FetchDecode(m) == [m |-> m, instr |-> decode_instruction(m.regs, m.regs.IR)]

FetchFill(rd) == FetchDecode([rd.m EXCEPT !.regs = FetchAdvance(@, rd.word)])

\* fetch_instruction: [m, instr].
fetch_instruction(m) ==
    FetchFill(FetchRead([m EXCEPT !.regs.MAR = int_to_word(m.regs.PSW.PC_psw)]))

OperandOf(rd) == [m |-> rd.m, operand |-> word_to_int(rd.word)]

\* The operand of an arithmetic or comparison instruction: [m, operand].
Operand(m, ins) ==
    IF ins.mode = ADDR_IMMEDIATE THEN [m |-> m, operand |-> ins.value]
    ELSE OperandOf(read_memory(m, ins.effective_address))

\* PC_psw = ea; set_PC_int(ea);
Jump(m, ea) ==
    [m EXCEPT !.regs = set_PC_int([@ EXCEPT !.PSW.PC_psw = ea % PC_PSW_MOD], ea)]

\* A division by zero that leaves the dividend: what C21 rests on.
ArithValueKeepsAC(opcode, ac_value, operand) ==
    IF opcode = 0 THEN ac_value + operand
    ELSE IF opcode = 1 THEN ac_value - operand
    ELSE IF opcode = 2 THEN Mul32(ac_value, operand)
    ELSE IF operand # 0 THEN CDiv(ac_value, operand) ELSE ac_value

ArithValue(opcode, ac_value, operand) ==
    IF opcode = 0 THEN ac_value + operand
    ELSE IF opcode = 1 THEN ac_value - operand
    ELSE IF opcode = 2 THEN Mul32(ac_value, operand)
    ELSE IF operand # 0 THEN CDiv(ac_value, operand) ELSE 0

ArithOverflow(opcode, ac_value, operand, result) ==
    \/ opcode = 0 /\ result < ac_value /\ operand > 0
    \/ opcode = 1 /\ result > ac_value /\ operand < 0
    \/ opcode = 2 /\ ac_value # 0 /\ CDiv(result, ac_value) # operand

ArithStore(m, opcode, ac_value, operand, result, clobber) ==
    IF ArithOverflow(opcode, ac_value, operand, result)
    THEN trigger_interrupt(
             [m EXCEPT !.regs = [update_condition_code(
                                     [@ EXCEPT !.AC = int_to_word_ub(result, clobber)],
                                     result)
                                 EXCEPT !.PSW.condition_code = 3]],
             INT_OVERFLOW)
    ELSE [m EXCEPT !.regs = update_condition_code(
                                [@ EXCEPT !.AC = int_to_word_ub(result, clobber)],
                                result)]

ArithOn(o, opcode, ac_value, clobber) ==
    ArithStore(o.m, opcode, ac_value, o.operand,
               ArithValue(opcode, ac_value, o.operand), clobber)

\* Opcodes 0-3 (sum, res, mult, divi).
ExecArith(m, ins, clobber) ==
    ArithOn(Operand(m, ins), ins.opcode, word_to_int(m.regs.AC), clobber)

CompareOn(o, opcode, ac_value) ==
    IF opcode = 6
    THEN [o.m EXCEPT !.regs = update_condition_code(@, ac_value - o.operand)]
    ELSE IF opcode = 7
    THEN [o.m EXCEPT !.regs = update_condition_code(@, BitAnd(ac_value, o.operand))]
    ELSE [o.m EXCEPT !.regs.AC = int_to_word(o.operand)]

\* Opcodes 6-8 (cmp, tst, mov).
ExecCompare(m, ins) == CompareOn(Operand(m, ins), ins.opcode, word_to_int(m.regs.AC))

ShouldJump(opcode, condition) ==
    \/ opcode = 9 /\ condition = 0
    \/ opcode = 10 /\ condition = 2
    \/ opcode = 11 /\ condition = 1
    \/ opcode = 12 /\ condition = 3

\* Opcodes 9-12 (jeq, jgt, jlt, jov).
ExecCondJump(m, ins) ==
    IF ShouldJump(ins.opcode, m.regs.PSW.condition_code)
    THEN Jump(m, ins.effective_address)
    ELSE m

\* write_memory(sp_value, word); SP = int_to_word(sp_value - 1);
PushWord(m, sp_value, word) ==
    [write_memory(m, sp_value, word) EXCEPT !.regs.SP = int_to_word(sp_value - 1)]

\* SP = int_to_word(sp_value); read_memory(sp_value): [m, word].
PopWord(m, sp_value) ==
    read_memory([m EXCEPT !.regs.SP = int_to_word(sp_value)], sp_value)

\* Opcode 14 (call).
ExecCall(m, ins) ==
    Jump(PushWord(m, word_to_int(m.regs.SP), int_to_word(m.regs.PSW.PC_psw)),
         ins.effective_address)

RetTo(rd) == Jump(rd.m, word_to_int(rd.word))

\* Opcode 15 (ret).
ExecRet(m) == RetTo(PopWord(m, word_to_int(m.regs.SP) + 1))

\* Opcode 25 (push).
ExecPush(m) == PushWord(m, word_to_int(m.regs.SP), m.regs.AC)

LoadAC(rd) == [rd.m EXCEPT !.regs.AC = rd.word]

\* Opcode 26 (pop).
ExecPop(m) == LoadAC(PopWord(m, word_to_int(m.regs.SP) + 1))

\* Opcodes 28 and 29 (dma_read, dma_write): [dma, threads].
ExecDmaStart(d, thrs, ins, created) ==
    dma_start_transfer(
        dma_set_io_operation(dma_set_memory_address(d, ins.value),
                             IF ins.opcode = 28 THEN 0 ELSE 1),
        thrs, created)

\* Opcode 32 (dma_config).
ExecDmaConfig(d, ins) ==
    dma_set_disk_location(d, CDiv(ins.value, 10000),
                          CDiv(CRem(ins.value, 10000), 100), CRem(ins.value, 100))

\* What execute_instruction leaves: the machine, the controller, the
\* threads, cpu_state, and whether dma_wait_completion went on to pthread_join.
Res(m, d, thrs, cs, join) ==
    [m |-> m, dma |-> d, threads |-> thrs, cpu_state |-> cs, join |-> join]

Started(m, st, cs) == Res(m, st.dma, st.threads, cs, FALSE)

\* The instructions that work on the registers and the memory alone.
ExecOnMachine(m, ins, clobber) ==
    IF ins.opcode = -1 THEN trigger_interrupt(m, INT_INVALID_INSTRUCTION)
    ELSE IF ins.opcode \in 0..3 THEN ExecArith(m, ins, clobber)
    ELSE IF ins.opcode = 4
    THEN IF ins.mode = ADDR_IMMEDIATE
         THEN [m EXCEPT !.regs.AC = int_to_word(ins.value)]
         ELSE LoadAC(read_memory(m, ins.effective_address))
    ELSE IF ins.opcode = 5 THEN write_memory(m, ins.effective_address, m.regs.AC)
    ELSE IF ins.opcode \in 6..8 THEN ExecCompare(m, ins)
    ELSE IF ins.opcode \in 9..12 THEN ExecCondJump(m, ins)
    ELSE IF ins.opcode = 13 THEN trigger_interrupt(m, INT_SYSCALL)
    ELSE IF ins.opcode = 14 THEN ExecCall(m, ins)
    ELSE IF ins.opcode = 15 THEN ExecRet(m)
    ELSE IF ins.opcode = 16 THEN [m EXCEPT !.regs.AC = m.regs.RB]
    ELSE IF ins.opcode = 17 THEN [m EXCEPT !.regs.RB = m.regs.AC]
    ELSE IF ins.opcode = 18 THEN [m EXCEPT !.regs.AC = m.regs.RL]
    ELSE IF ins.opcode = 19 THEN [m EXCEPT !.regs.RL = m.regs.AC]
    ELSE IF ins.opcode = 25 THEN ExecPush(m)
    ELSE IF ins.opcode = 26 THEN ExecPop(m)
    ELSE IF ins.opcode = 27 THEN Jump(m, ins.effective_address)
    ELSE IF ins.opcode \in 34..36 THEN trigger_interrupt(m, INT_IO_COMPLETION)
    ELSE IF ins.opcode = 41 THEN m
    ELSE IF ins.opcode = 42 THEN [m EXCEPT !.regs.PSW.interrupt_enabled = 1]
    ELSE IF ins.opcode = 43 THEN [m EXCEPT !.regs.PSW.interrupt_enabled = 0]
    ELSE IF ins.opcode = 44 THEN [m EXCEPT !.regs.PSW.operation_mode = USER_MODE]
    ELSE IF ins.opcode = 45 THEN [m EXCEPT !.regs.PSW.operation_mode = KERNEL_MODE]
    ELSE trigger_interrupt(m, INT_INVALID_INSTRUCTION)

\* execute_instruction refusing the mode and region instructions in user
\* mode: what C35 rests on.
ExecutePrivileged(m, d, thrs, cs, ins, created, clobber) ==
    IF ins.opcode \in {17, 19, 45} /\ m.regs.PSW.operation_mode = USER_MODE
    THEN Res(trigger_interrupt(m, INT_INVALID_INSTRUCTION), d, thrs, cs, FALSE)
    ELSE IF ins.opcode \in 28..29
    THEN Started(m, ExecDmaStart(d, thrs, ins, created), cs)
    ELSE IF ins.opcode = 30
    THEN Res(m, d, thrs, cs, d.state # DMA_IDLE /\ d.state # DMA_ERROR)
    ELSE IF ins.opcode = 31
    THEN Res([m EXCEPT !.regs.AC = int_to_word(dma_get_status(d))], d, thrs, cs, FALSE)
    ELSE IF ins.opcode = 32 THEN Res(m, ExecDmaConfig(d, ins), thrs, cs, FALSE)
    ELSE IF ins.opcode = 33
    THEN Res(m, dma_set_transfer_size(d, ins.value), thrs, cs, FALSE)
    ELSE IF ins.opcode = 40 THEN Res(m, d, thrs, CPU_HALTED, FALSE)
    ELSE Res(ExecOnMachine(m, ins, clobber), d, thrs, cs, FALSE)

(* execute_instruction on machine m with DMA controller d and threads     *)
(* thrs.  created is the answer of pthread_create and clobber the damage  *)
(* of int_to_word's overrun, should the instruction come to them.         *)
execute_instruction(m, d, thrs, cs, ins, created, clobber) ==
    IF ins.opcode \in 28..29
    THEN Started(m, ExecDmaStart(d, thrs, ins, created), cs)
    ELSE IF ins.opcode = 30
    THEN Res(m, d, thrs, cs, d.state # DMA_IDLE /\ d.state # DMA_ERROR)
    ELSE IF ins.opcode = 31
    THEN Res([m EXCEPT !.regs.AC = int_to_word(dma_get_status(d))], d, thrs, cs, FALSE)
    ELSE IF ins.opcode = 32 THEN Res(m, ExecDmaConfig(d, ins), thrs, cs, FALSE)
    ELSE IF ins.opcode = 33
    THEN Res(m, dma_set_transfer_size(d, ins.value), thrs, cs, FALSE)
    ELSE IF ins.opcode = 40 THEN Res(m, d, thrs, CPU_HALTED, FALSE)
    ELSE Res(ExecOnMachine(m, ins, clobber), d, thrs, cs, FALSE)

---------------------------------------------------------------------------
(* The programs the machine is run on *)

\* The word of an instruction: two digits of opcode, one of mode, five of value.
Asm(opcode, mode, value) ==
    ZeroPad(DecDigits(opcode), 2) \o <<Digits[mode + 1]>> \o ZeroPad(DecDigits(value), 5)

HALT == Asm(40, 0, 0)
NOP == Asm(41, 0, 0)
EI == Asm(42, 0, 0)
SWUSER == Asm(44, 0, 0)

\* Where load_program_file puts a program, and the address it returns.
LOAD_ADDRESS == 300

(* A program is the words the loader writes from LOAD_ADDRESS on and the   *)
(* region it sets afterwards (<<0, 0>>: RB and RL are left as they are).   *)
Prog(code, region) == [code |-> code, region |-> region]

\* The sample with HALT (40) as its fourth word: what C17 rests on.
HaltingProgram ==
    Prog(<<Asm(0, 0, 50000), Asm(1, 0, 30000), Asm(5, 0, 1200), Asm(40, 0, 0)>>,
         <<300, 100>>)

\* The four words load_program_file writes, whatever file it is given.
LoaderProgram ==
    Prog(<<Asm(0, 0, 50000), Asm(1, 0, 30000), Asm(5, 0, 1200), Asm(45, 0, 0)>>,
         <<300, 100>>)

\* The program of the spec's first scenario: words 04150000, 00030000,
\* 05000400, 40000000, placed at 300..303 with RB and RL as they are.
AddProgram ==
    Prog(<<Asm(4, 1, 50000), Asm(0, 0, 30000), Asm(5, 0, 400), HALT>>, <<0, 0>>)

\* DMAZ 4, DMAC 0, DMAW 500, DMAWAIT, DMAR 600, DMAWAIT, HALT.
DmaProgram ==
    Prog(<<Asm(33, 0, 4), Asm(32, 0, 0), Asm(29, 0, 500), Asm(30, 0, 0),
           Asm(28, 0, 600), Asm(30, 0, 0), HALT>>, <<0, 0>>)

(* The programs a run executes.  execute_program runs whatever words stand *)
(* at the start address, so the instruction set is exercised on the sample *)
(* of load_program_file and on programs a loader reading its file would    *)
(* put at the same address, one per group of instructions.                 *)
Programs == {
    LoaderProgram,
    AddProgram,
    DmaProgram,
    \* a fetch from the reserved area in user mode
    Prog(<<Asm(4, 1, 7), SWUSER, Asm(27, 0, 100)>>, <<0, 0>>),
    \* requests the controller refuses: size 0, cylinder 99, address 2000,
    \* and a start that may find the controller busy
    Prog(<<Asm(33, 0, 0), Asm(32, 0, 99999), Asm(28, 0, 2000), Asm(28, 0, 2000),
           HALT>>, <<0, 0>>),
    \* a store into the cell a transfer targets
    Prog(<<Asm(4, 1, 7), Asm(28, 0, 600), Asm(5, 0, 600), HALT>>, <<0, 0>>),
    \* a transfer that runs over the end of memory, with interrupts enabled
    Prog(<<EI, Asm(33, 0, 2), Asm(28, 0, 1999), NOP, NOP, HALT>>, <<0, 0>>),
    \* two transfers started back to back
    Prog(<<Asm(28, 0, 600), Asm(28, 0, 700), HALT>>, <<0, 0>>),
    \* the controller reconfigured while a transfer may be running
    Prog(<<Asm(28, 0, 600), Asm(33, 0, 2), Asm(32, 0, 10203), HALT>>, <<0, 0>>),
    \* a transfer that runs over the end of memory, started twice
    Prog(<<Asm(33, 0, 2), Asm(28, 0, 1999), Asm(28, 0, 1999), HALT>>, <<0, 0>>),
    \* start, wait, read the status
    Prog(<<Asm(28, 0, 600), Asm(30, 0, 0), Asm(31, 0, 0), HALT>>, <<0, 0>>),
    \* a transfer with interrupts enabled
    Prog(<<EI, Asm(28, 0, 600), NOP, NOP, HALT>>, <<0, 0>>),
    \* a memory-to-disk transfer, an IN and a system call with interrupts enabled
    Prog(<<EI, Asm(29, 0, 600), Asm(34, 0, 0), Asm(13, 0, 0), HALT>>, <<0, 0>>),
    \* a memory-to-disk transfer of the program's own first word
    Prog(<<Asm(29, 0, 300), HALT>>, <<0, 0>>),
    \* stores and loads at a negative address (indexed by AC = -5) and at an
    \* address beyond memory, then a push at SP = 0 and one at SP = -1
    Prog(<<Asm(1, 1, 5), Asm(5, 2, 0), Asm(4, 2, 0), Asm(5, 0, 30000),
           Asm(4, 0, 30000), Asm(25, 0, 0), Asm(25, 0, 0), HALT>>, <<0, 0>>),
    \* a region that ends beyond memory: the program cannot be fetched
    Prog(<<Asm(5, 0, 300), HALT>>, <<1800, 400>>),
    \* a jump beyond the range of PC_psw
    Prog(<<Asm(27, 0, 1200)>>, <<0, 0>>),
    \* a CALL stored in the last cell PC_psw reaches, run there, and its RET
    Prog(<<Asm(4, 0, 304), Asm(5, 0, 1023), Asm(27, 0, 1023), Asm(15, 0, 0),
           Asm(14, 0, 303)>>, <<0, 0>>),
    \* a product that does not fit an int
    Prog(<<Asm(4, 1, 65536), Asm(2, 1, 32768), Asm(12, 0, 304), HALT, HALT>>, <<0, 0>>),
    \* user-mode accesses to the reserved area, with interrupts enabled
    Prog(<<EI, Asm(4, 1, 7), SWUSER, Asm(5, 0, 100), Asm(4, 0, 100), Asm(5, 0, 400),
           HALT>>, <<0, 0>>),
    \* a transfer into the reserved area while the CPU goes to user mode
    Prog(<<Asm(33, 0, 2), Asm(28, 0, 100), SWUSER, HALT>>, <<0, 0>>),
    \* stack and subroutine
    Prog(<<Asm(4, 1, 7), Asm(25, 0, 0), Asm(26, 0, 0), Asm(14, 0, 305), HALT,
           Asm(15, 0, 0)>>, <<0, 0>>),
    \* arithmetic, comparison and conditional jumps
    Prog(<<Asm(4, 1, 5), Asm(1, 1, 5), Asm(9, 0, 304), Asm(99, 0, 0),
           Asm(6, 1, 1), Asm(11, 0, 307), Asm(20, 0, 0), HALT>>, <<0, 0>>)
}

---------------------------------------------------------------------------
(* The machine as main() leaves it, and its steps *)

\* Cycles of the CPU loop a run is followed for.
MaxCycles == 8
\* Transfer threads a run may create.
MaxThreads == 2

M == Machine(cpu_registers, memory, pending_interrupts)

Commit(m) ==
    /\ cpu_registers' = m.regs
    /\ memory' = m.mem
    /\ pending_interrupts' = m.pend

Pending(pend) == {c \in 0..8 : pend[c] # 0}

NoInstr == [opcode |-> -1, mode |-> 0, value |-> 0, effective_address |-> 0]

(* hist: cycles, the CPU cycles begun; S, the codes pending when the sweep *)
(* in progress (or the last one) started; disp, the codes whose handler it *)
(* has run, in order; during, the codes raised since it started; owed, the *)
(* successful transfers whose completion has been signalled and whose      *)
(* handler has not run yet; io, the runs of the INT_IO_COMPLETION handler  *)
(* so far, counted up to two.                                              *)
InitHist ==
    [cycles |-> 0, S |-> {}, disp |-> <<>>, during |-> {}, owed |-> 0, io |-> 0]

InSweep == cpu_pc \in {"sweep", "clear"}

\* hist after codes were raised by a step that is not the sweep's own.
Raised(h, codes) == IF InSweep THEN [h EXCEPT !.during = @ \cup codes] ELSE h

Init ==
    /\ cpu_registers = init_registers
    /\ memory = init_memory
    /\ pending_interrupts = init_interrupts
    /\ dma = init_dma
    /\ bus_lock = 0
    /\ threads = <<>>
    /\ cpu_state = CPU_RUNNING
    /\ cpu_pc = "console"
    /\ instr = NoInstr
    /\ sweep_i = 0
    /\ obs = [op |-> "none"]
    /\ hist = InitHist
    /\ hard_disk = init_disk

\* The loader: the words of the program written with write_memory.
RECURSIVE LoadWords(_, _, _)
LoadWords(m, code, k) ==
    IF k > Len(code) THEN m
    ELSE LoadWords(write_memory(m, LOAD_ADDRESS + k - 1, code[k]), code, k + 1)

SetRegion(m, region) ==
    IF region = <<0, 0>> THEN m
    ELSE [m EXCEPT !.regs = set_memory_region(@, region[1], region[2])]

load_program_file(m, p) == SetRegion(LoadWords(m, p.code, 1), p.region)

\* The console's run command: load_program_file, then execute_program up
\* to its loop.
execute_command_run(p) ==
    /\ cpu_pc = "console"
    /\ Commit(Jump(load_program_file(M, p), LOAD_ADDRESS))
    /\ cpu_state' = CPU_RUNNING
    /\ cpu_pc' = "fetch"
    /\ UNCHANGED <<hard_disk, dma, bus_lock, threads, instr, sweep_i, obs, hist>>

\* execute_program's loop test fails: the run is over.
CpuExit ==
    /\ cpu_pc = "fetch"
    /\ cpu_state # CPU_RUNNING
    /\ cpu_pc' = "exit"
    /\ UNCHANGED <<hard_disk, cpu_registers, memory, pending_interrupts, dma, bus_lock,
                   threads, cpu_state, instr, sweep_i, obs, hist>>

Fetched(f) ==
    /\ Commit(f.m)
    /\ instr' = f.instr

\* cpu_cycle, first part: fetch_instruction.
CpuFetch ==
    /\ cpu_pc = "fetch"
    /\ cpu_state = CPU_RUNNING
    /\ hist.cycles < MaxCycles
    /\ Fetched(fetch_instruction(M))
    /\ cpu_pc' = "execute"
    /\ hist' = [hist EXCEPT !.cycles = @ + 1]
    /\ UNCHANGED <<hard_disk, dma, bus_lock, threads, cpu_state, sweep_i, obs>>

\* hist when handle_pending_interrupts is entered with pend pending.
SweepEntered(h, pend) == [h EXCEPT !.S = Pending(pend), !.disp = <<>>, !.during = {}]

Executed(x, waits) ==
    /\ Len(x.threads) <= MaxThreads
    /\ Commit(x.m)
    /\ dma' = x.dma
    /\ threads' = x.threads
    /\ cpu_state' = x.cpu_state
    /\ IF x.join /\ waits
       THEN cpu_pc' = "join" /\ hist' = hist
       ELSE cpu_pc' = "sweep" /\ hist' = SweepEntered(hist, x.m.pend)

(* cpu_cycle, second part: execute_instruction.  When dma_wait_completion  *)
(* reaches pthread_join, the thread it names was detached: the call either *)
(* fails at once or waits for that thread.                                 *)
CpuExecute ==
    /\ cpu_pc = "execute"
    /\ \E created \in BOOLEAN, clobber \in Clobbers, waits \in BOOLEAN :
         Executed(execute_instruction(M, dma, threads, cpu_state, instr,
                                      created, clobber), waits)
    /\ sweep_i' = 0
    /\ UNCHANGED <<hard_disk, bus_lock, instr, obs>>

\* pthread_join returns: the thread dma.thread names has ended.
CpuJoinReturn ==
    /\ cpu_pc = "join"
    /\ dma.thread \in 1..Len(threads)
    /\ threads[dma.thread].pc = "done"
    /\ cpu_pc' = "sweep"
    /\ hist' = SweepEntered(hist, pending_interrupts)
    /\ UNCHANGED <<hard_disk, cpu_registers, memory, pending_interrupts, dma, bus_lock,
                   threads, cpu_state, instr, sweep_i, obs>>

(* handle_pending_interrupts *)

\* The loop run from the top of the vector down: what C4 rests on.
LastPending(pend, from) ==
    IF \E c \in from..8 : pend[c] # 0
    THEN CHOOSE c \in from..8 : pend[c] # 0 /\ \A b \in (c + 1)..8 : pend[b] = 0
    ELSE 9

\* The first i from `from` on with pending_interrupts[i] set (9 when none).
NextPending(pend, from) ==
    IF \E c \in from..8 : pend[c] # 0
    THEN CHOOSE c \in from..8 : pend[c] # 0 /\ \A b \in from..(c - 1) : pend[b] = 0
    ELSE 9

\* A dispatch that leaves the mode as it is: what C30 rests on.
DispatchKeepsMode(i) ==
    /\ sweep_i' = i
    /\ cpu_registers' = interrupt_vector(cpu_registers, i)
    /\ hist' = [hist EXCEPT !.disp = Append(@, i),
                            !.owed = IF i = INT_IO_COMPLETION /\ @ > 0
                                     THEN @ - 1 ELSE @,
                            !.io = IF i = INT_IO_COMPLETION /\ @ < 2
                                   THEN @ + 1 ELSE @]

Dispatch(i) ==
    /\ sweep_i' = i
    /\ cpu_registers' =
           interrupt_vector([cpu_registers EXCEPT !.PSW.operation_mode = 1], i)
    /\ hist' = [hist EXCEPT !.disp = Append(@, i),
                            !.owed = IF i = INT_IO_COMPLETION /\ @ > 0
                                     THEN @ - 1 ELSE @,
                            !.io = IF i = INT_IO_COMPLETION /\ @ < 2
                                   THEN @ + 1 ELSE @]

\* The loop finds pending_interrupts[i] set: save_context, kernel mode, the
\* handler.
SweepDispatch ==
    /\ cpu_pc = "sweep"
    /\ NextPending(pending_interrupts, sweep_i) <= 8
    /\ Dispatch(NextPending(pending_interrupts, sweep_i))
    /\ cpu_pc' = "clear"
    /\ UNCHANGED <<hard_disk, memory, pending_interrupts, dma, bus_lock, threads, cpu_state,
                   instr, obs>>

\* pending_interrupts[i] = 0; restore_context; i++.
SweepClear ==
    /\ cpu_pc = "clear"
    /\ pending_interrupts' = [pending_interrupts EXCEPT ![sweep_i] = 0]
    /\ sweep_i' = sweep_i + 1
    /\ cpu_pc' = "sweep"
    /\ UNCHANGED <<hard_disk, cpu_registers, memory, dma, bus_lock, threads, cpu_state,
                   instr, obs, hist>>

\* The loop runs out: cpu_cycle returns to execute_program's loop.
CpuSweepEnd ==
    /\ cpu_pc = "sweep"
    /\ NextPending(pending_interrupts, sweep_i) = 9
    /\ cpu_pc' = "fetch"
    /\ UNCHANGED <<hard_disk, cpu_registers, memory, pending_interrupts, dma, bus_lock,
                   threads, cpu_state, instr, sweep_i, obs, hist>>

(* transfer_thread *)

SetThread(t, r) == threads' = [threads EXCEPT ![t] = r]

\* dma_bus_request that does not wait for the mutex: what C25 rests on.
ThreadRequestFree(t) ==
    /\ threads[t].pc = "request"
    /\ bus_lock' = t
    /\ SetThread(t, [threads[t] EXCEPT !.pc = "begin"])
    /\ UNCHANGED <<hard_disk, cpu_registers, memory, pending_interrupts, dma, cpu_state,
                   cpu_pc, instr, sweep_i, obs, hist>>

\* dma_bus_request: pthread_mutex_lock.
ThreadRequest(t) ==
    /\ threads[t].pc = "request"
    /\ bus_lock = 0
    /\ bus_lock' = t
    /\ SetThread(t, [threads[t] EXCEPT !.pc = "begin"])
    /\ UNCHANGED <<hard_disk, cpu_registers, memory, pending_interrupts, dma, cpu_state,
                   cpu_pc, instr, sweep_i, obs, hist>>

ThreadBegin(t) ==
    /\ threads[t].pc = "begin"
    /\ dma' = [dma EXCEPT !.state = IF dma.io_operation = 0 THEN DMA_READING
                                    ELSE DMA_WRITING]
    /\ SetThread(t, [threads[t] EXCEPT !.pc = "loop"])
    /\ UNCHANGED <<hard_disk, cpu_registers, memory, pending_interrupts, bus_lock, cpu_state,
                   cpu_pc, instr, sweep_i, obs, hist>>

\* A turn that reads from disk, after write_memory's checks c.
LoopRead(t, c, word) ==
    /\ Commit(c.m)
    /\ hist' = Raised(hist, c.m.raised)
    /\ IF c.phys >= 0
       THEN SetThread(t, [threads[t] EXCEPT !.pc = "store", !.phys = c.phys,
                                            !.word = word])
       ELSE SetThread(t, [threads[t] EXCEPT !.i = @ + 1])
    /\ hard_disk' = hard_disk

\* A turn that writes to disk the word rd read from memory.
LoopWrite(t, rd, sector) ==
    /\ Commit(rd.m)
    /\ hist' = Raised(hist, rd.m.raised)
    /\ SetThread(t, [threads[t] EXCEPT !.i = @ + 1])
    /\ hard_disk' = dma_disk_write(hard_disk, dma.disk_track, dma.disk_cylinder,
                                   sector, Take(rd.word, 8))

\* A turn that does not test the address against MEMORY_SIZE: what C28
\* rests on.
LoopTurnUnbounded(t, address, sector) ==
    IF dma.io_operation = 0
    THEN /\ LoopRead(t, write_memory_check(M, address),
                     dma_disk_read(dma.disk_track, dma.disk_cylinder, sector))
         /\ dma' = dma
    ELSE /\ LoopWrite(t, read_memory(M, address), sector)
         /\ dma' = dma

LoopTurn(t, address, sector) ==
    IF address >= MEMORY_SIZE
    THEN /\ dma' = [dma EXCEPT !.state = DMA_ERROR, !.status = 1]
         /\ SetThread(t, [threads[t] EXCEPT !.pc = "finish"])
         /\ UNCHANGED <<hard_disk, cpu_registers, memory, pending_interrupts, hist>>
    ELSE IF dma.io_operation = 0
    THEN /\ LoopRead(t, write_memory_check(M, address),
                     dma_disk_read(dma.disk_track, dma.disk_cylinder, sector))
         /\ dma' = dma
    ELSE /\ LoopWrite(t, read_memory(M, address), sector)
         /\ dma' = dma

(* One turn of the loop, up to the store of write_memory when it is a      *)
(* read from disk that passes write_memory's checks.                       *)
ThreadLoop(t) ==
    /\ threads[t].pc = "loop"
    /\ threads[t].i < dma.bytes_to_transfer
    /\ LoopTurn(t, dma.memory_address + threads[t].i, dma.disk_sector + threads[t].i)
    /\ UNCHANGED <<bus_lock, cpu_state, cpu_pc, instr, sweep_i, obs>>

\* memory[physical_address] = word, the last statement of write_memory.
ThreadStore(t) ==
    /\ threads[t].pc = "store"
    /\ memory' = Store(memory, threads[t].phys, threads[t].word)
    /\ SetThread(t, [threads[t] EXCEPT !.pc = "loop", !.i = @ + 1, !.phys = -1,
                                       !.word = <<>>])
    /\ UNCHANGED <<hard_disk, cpu_registers, pending_interrupts, dma, bus_lock, cpu_state,
                   cpu_pc, instr, sweep_i, obs, hist>>

\* After the loop: back to DMA_IDLE unless the transfer failed.
ThreadFinish(t) ==
    /\ \/ threads[t].pc = "finish"
       \/ threads[t].pc = "loop" /\ threads[t].i >= dma.bytes_to_transfer
    /\ dma' = IF dma.state # DMA_ERROR
              THEN [dma EXCEPT !.state = DMA_IDLE, !.status = 0]
              ELSE dma
    /\ SetThread(t, [threads[t] EXCEPT !.pc = "release",
                                       !.ok = (dma.state # DMA_ERROR)])
    /\ UNCHANGED <<hard_disk, cpu_registers, memory, pending_interrupts, bus_lock, cpu_state,
                   cpu_pc, instr, sweep_i, obs, hist>>

\* dma_bus_release that leaves the mutex locked: what C29 rests on.
ThreadReleaseKeeps(t) ==
    /\ threads[t].pc = "release"
    /\ bus_lock' = bus_lock
    /\ SetThread(t, [threads[t] EXCEPT !.pc = "trigger"])
    /\ UNCHANGED <<hard_disk, cpu_registers, memory, pending_interrupts, dma, cpu_state,
                   cpu_pc, instr, sweep_i, obs, hist>>

\* dma_bus_release: pthread_mutex_unlock.
ThreadRelease(t) ==
    /\ threads[t].pc = "release"
    /\ bus_lock' = 0
    /\ SetThread(t, [threads[t] EXCEPT !.pc = "trigger"])
    /\ UNCHANGED <<hard_disk, cpu_registers, memory, pending_interrupts, dma, cpu_state,
                   cpu_pc, instr, sweep_i, obs, hist>>

\* trigger_interrupt(INT_IO_COMPLETION); return NULL.
ThreadTrigger(t) ==
    /\ threads[t].pc = "trigger"
    /\ Commit(trigger_interrupt(M, INT_IO_COMPLETION))
    /\ SetThread(t, [threads[t] EXCEPT !.pc = "done"])
    /\ hist' = [Raised(hist, {INT_IO_COMPLETION}) EXCEPT
                   !.owed = IF threads[t].ok THEN @ + 1 ELSE @]
    /\ UNCHANGED <<hard_disk, dma, bus_lock, cpu_state, cpu_pc, instr, sweep_i, obs>>

Next ==
    \/ \E p \in Programs : execute_command_run(p)
    \/ CpuFetch
    \/ CpuExecute
    \/ CpuJoinReturn
    \/ SweepDispatch
    \/ SweepClear
    \/ CpuSweepEnd
    \/ CpuExit
    \/ \E t \in 1..Len(threads) : ThreadRequest(t)
    \/ \E t \in 1..Len(threads) : ThreadBegin(t)
    \/ \E t \in 1..Len(threads) : ThreadLoop(t)
    \/ \E t \in 1..Len(threads) : ThreadStore(t)
    \/ \E t \in 1..Len(threads) : ThreadFinish(t)
    \/ \E t \in 1..Len(threads) : ThreadRelease(t)
    \/ \E t \in 1..Len(threads) : ThreadTrigger(t)

Spec == Init /\ [][Next]_vars

\* A step of transfer thread t.
ThreadStep(t) ==
    /\ t \in 1..Len(threads)
    /\ \/ ThreadRequest(t)
       \/ ThreadBegin(t)
       \/ ThreadLoop(t)
       \/ ThreadStore(t)
       \/ ThreadFinish(t)
       \/ ThreadRelease(t)
       \/ ThreadTrigger(t)

(* The machine with its transfer threads scheduled fairly: a thread that   *)
(* can take a step, and goes on being able to, takes it.  Nothing is       *)
(* assumed of the CPU thread.                                              *)
SpecFair == Spec /\ \A t \in 1..MaxThreads : WF_vars(ThreadStep(t))

---------------------------------------------------------------------------
(* Properties of the running machine (Spec) *)

\* C2: at no instant are two transfer threads alive.
C2_OneWorkerAlive == Cardinality(Alive(threads)) <= 1

(* C3: every transfer that ended well and raised INT_IO_COMPLETION gets    *)
(* one run of the handler: as long as a run is owed, the interrupt is      *)
(* pending, whatever PSW.interrupt_enabled was when it was raised.         *)
C3_CompletionDispatched ==
    hist.owed > 0 => pending_interrupts[INT_IO_COMPLETION] = 1

(* C5: a fetch leaves PC_psw at clamp(PC + 1, 0, 1023), PC being the       *)
(* address it fetched from: fetching at 1023 leaves PC_psw at 1023.        *)
C5_FetchClamps ==
    [][cpu_pc = "fetch" /\ cpu_pc' = "execute"
       => cpu_registers'.PSW.PC_psw
              = Clamp(cpu_registers.PSW.PC_psw + 1, 0, PC_PSW_MOD - 1)]_vars

(* C1: no step taken while the mode is USER, a store of the CPU or a write *)
(* of a transfer thread, changes a cell of the reserved area 0..299.       *)
C1_ReservedProtected ==
    [][cpu_registers.PSW.operation_mode = USER_MODE
       /\ cpu_registers'.PSW.operation_mode = USER_MODE
       => \A a \in 0..(OS_RESERVED - 1) : Cell(memory', a) = Cell(memory, a)]_vars

\* The changes of dma.state that the controller's life cycle allows.
AllowedTransitions ==
    {<<DMA_IDLE, DMA_READING>>, <<DMA_IDLE, DMA_WRITING>>,
     <<DMA_READING, DMA_IDLE>>, <<DMA_READING, DMA_ERROR>>,
     <<DMA_WRITING, DMA_IDLE>>, <<DMA_WRITING, DMA_ERROR>>}

\* C8: dma.state changes only along IDLE -> READING/WRITING -> IDLE/ERROR.
C8_StateTransitions ==
    [][dma'.state # dma.state => <<dma.state, dma'.state>> \in AllowedTransitions]_vars

\* The configuration of a transfer.
Config(d) ==
    <<d.memory_address, d.disk_track, d.disk_cylinder, d.disk_sector,
      d.io_operation, d.bytes_to_transfer>>

\* C9: while dma.state is not IDLE no step changes the configuration.
C9_ConfigFrozen ==
    [][dma.state # DMA_IDLE => Config(dma') = Config(dma)]_vars

(* C10: when dma_wait_completion has returned after a start that made a    *)
(* thread, no thread is alive and dma.state is IDLE or ERROR.              *)
C10_WaitMeansDone ==
    [][/\ cpu_pc \in {"execute", "join"}
       /\ instr.opcode = 30
       /\ cpu_pc' = "sweep"
       /\ threads # <<>>
       => /\ Alive(threads') = {}
          /\ dma'.state \in {DMA_IDLE, DMA_ERROR}]_vars

\* The words of program p stand where the loader put them.
Loaded(p) ==
    \A k \in 1..Len(p.code) : Cell(memory, LOAD_ADDRESS + k - 1) = p.code[k]

\* The run is over: execute_program has left its loop and no thread is left.
RunOver == cpu_pc = "exit" /\ Alive(threads) = {}

(* C15 as stated: the run of 04150000, 00030000, 05000400, 40000000 from   *)
(* 300 ends with the CPU halted, AC = 18 and memory[400] = int_to_word(18).*)
C15_AddsTo18 ==
    Loaded(AddProgram) /\ cpu_pc = "exit"
    => /\ cpu_state = CPU_HALTED
       /\ cpu_registers.AC = int_to_word(18)
       /\ Cell(memory, 400) = int_to_word(18)

(* C15 amended: the words decode as LOAD immediate 50000, SUM direct 30000 *)
(* (an operand read outside memory, which counts 0), STR direct 400, HALT; *)
(* the run halts in its fourth cycle with AC and memory[400] at            *)
(* int_to_word(50000).                                                     *)
C15_Loads50000 ==
    Loaded(AddProgram) /\ (cpu_pc = "exit" \/ (hist.cycles >= 4 /\ cpu_pc # "execute"))
    => /\ cpu_state = CPU_HALTED
       /\ hist.cycles = 4
       /\ cpu_registers.AC = int_to_word(50000)
       /\ Cell(memory, 400) = int_to_word(50000)

\* C15: the run of the program has ended.
C15_Witness == Loaded(AddProgram) /\ cpu_pc = "exit" /\ cpu_state = CPU_HALTED

\* The four words a transfer left at 600..603 are those in ws.
Transferred(ws) == \A k \in 0..3 : Cell(memory, 600 + k) = ws[k + 1]

(* C16: the run of DmaProgram ends, in every interleaving, with            *)
(* memory[600..603] holding the four words of 500..503 or the four words   *)
(* read from sectors 0..3, the INT_IO_COMPLETION handler run at least      *)
(* twice, and dma.state = IDLE.                                            *)
C16_TransfersComplete ==
    Loaded(DmaProgram) /\ RunOver
    => /\ \/ Transferred([k \in 1..4 |-> Cell(memory, 499 + k)])
          \/ Transferred([k \in 1..4 |-> dma_disk_read(0, 0, k - 1)])
       /\ hist.io >= 2
       /\ dma.state = DMA_IDLE

---------------------------------------------------------------------------
(* The sample of load_program_file run without a bound on its cycles       *)
(* (SpecLoader).  The run creates no transfer thread and is followed for   *)
(* as long as execute_program's loop goes on; its states repeat, so it is  *)
(* followed to the end.  The steps are those of Spec, with the cycles not  *)
(* counted.                                                                *)

\* cpu_cycle, first part, whatever the number of cycles so far.
CpuFetchLoop ==
    /\ cpu_pc = "fetch"
    /\ cpu_state = CPU_RUNNING
    /\ Fetched(fetch_instruction(M))
    /\ cpu_pc' = "execute"
    /\ UNCHANGED <<hard_disk, dma, bus_lock, threads, cpu_state, sweep_i, obs, hist>>

NextLoader ==
    \/ execute_command_run(LoaderProgram)
    \/ CpuFetchLoop
    \/ CpuExecute
    \/ CpuSweepEnd

SpecLoader == Init /\ [][NextLoader]_vars

---------------------------------------------------------------------------
(* Single instructions (SpecExec): the machine of Init run on short        *)
(* programs that bring AC and PSW.interrupt_enabled to a chosen state,     *)
(* then hold one word under study and a HALT.  The steps are those of      *)
(* Spec; no program starts a transfer, so there is no thread.              *)

\* With or without interrupts enabled.
ExecStarts == {<<>>, <<EI>>}

\* AC = 0, 7, 9,999,000 and -9,999,000 when the word under study is fetched,
\* in kernel mode, and AC = 7 and 9,999,000 in user mode; AC = 400 with the
\* region limit RL = 400 (RB = 0), in kernel mode.
ExecPrefixes == {
    <<>>,
    <<Asm(4, 1, 400), Asm(19, 0, 0)>>,
    <<Asm(4, 1, 7)>>,
    <<Asm(4, 1, 7), SWUSER>>,
    \* user mode left again by the program itself
    <<Asm(4, 1, 7), SWUSER, Asm(45, 0, 0)>>,
    <<Asm(4, 1, 99990), Asm(2, 1, 100), SWUSER>>,
    <<Asm(4, 1, 99990), Asm(2, 1, 100)>>,
    <<Asm(1, 1, 99990), Asm(2, 1, 100)>>
}

\* The opcodes execute_instruction has no case for.
ReservedOpcodes == (20..24) \cup (37..39) \cup (46..99)

ExecWords ==
    \* sum, res, mult with an immediate operand
    {Asm(op, 1, v) : op \in 0..2, v \in {0, 3, 2000, 99999}}
    \* sum and res with the word at 300 as operand
    \cup {Asm(0, 0, 300), Asm(1, 0, 300)}
    \* divi by an immediate, by a zero cell, by a cell of the reserved area
    \* and by a cell outside memory
    \cup {Asm(3, 1, 0), Asm(3, 1, 5), Asm(3, 0, 400), Asm(3, 0, 100), Asm(3, 0, 30000)}
    \* sum, res, mult, cmp, tst and mov with a cell of the reserved area and
    \* a cell outside memory as operand
    \cup {Asm(op, 0, v) : op \in {0, 1, 2, 6, 7, 8}, v \in {100, 30000}}
    \* strr, strl, the switch to kernel mode and a store into the reserved area
    \cup {Asm(17, 0, 0), Asm(19, 0, 0), Asm(45, 0, 0), Asm(5, 0, 100)}
    \* a system call and an input
    \cup {Asm(13, 0, 0), Asm(34, 0, 0)}
    \* words that are not eight decimal digits
    \cup {PRIV_ERR_WORD, ADDR_ERR_WORD, OVERFLOW_WORD, MEM_ERR_WORD,
          <<"0", "4", "1", "0", "0", "0", "A", "5">>}
    \* a mode digit that is none of 0, 1, 2
    \cup {Asm(op, md, 5) : op \in {0, 4, 5, 27, 40, 41, 99}, md \in {3, 9}}
    \* opcodes without a case
    \cup {Asm(op, md, 5) : op \in ReservedOpcodes, md \in 0..2}

ExecPrograms ==
    {Prog(s \o a \o <<w, HALT>>, <<0, 0>>) :
        s \in ExecStarts, a \in ExecPrefixes, w \in ExecWords}

NextExec ==
    \/ \E p \in ExecPrograms : execute_command_run(p)
    \/ CpuFetch
    \/ CpuExecute
    \/ SweepDispatch
    \/ SweepClear
    \/ CpuSweepEnd
    \/ CpuExit

SpecExec == Init /\ [][NextExec]_vars

\* A step of execute_instruction on the instruction decoded from IR.
ExecStep == cpu_pc = "execute" /\ cpu_pc' # "execute"

\* What shows of trigger_interrupt(code) by the step: the code is pending
\* after it when interrupts were enabled.
RaisedByStep(code) ==
    cpu_registers.PSW.interrupt_enabled = 1 => pending_interrupts'[code] = 1

IsDecimalWord(w) == Len(w) = 8 /\ \A i \in 1..8 : IsDigit(w[i])

\* The result of the operation on integers is outside the word range.
MathOutOfRange(opcode, a, v) ==
    IF opcode = 0 THEN CAbs(a + v) > WORD_MAX
    ELSE IF opcode = 1 THEN CAbs(a - v) > WORD_MAX
    ELSE a # 0 /\ v # 0 /\ CAbs(v) > WORD_MAX \div CAbs(a)

(* C11: for SUM, RES and MULT, whenever the result of the operation on AC  *)
(* and the operand, taken as integers, lies outside [-9,999,999,           *)
(* 9,999,999], the instruction leaves PSW.condition_code = 3 and raises    *)
(* INT_OVERFLOW (pending when interrupts are enabled).                     *)
C11_OverflowFlagged ==
    [][ExecStep /\ instr.opcode \in 0..2
       /\ MathOutOfRange(instr.opcode, word_to_int(cpu_registers.AC),
                         Operand(M, instr).operand)
       => /\ cpu_registers'.PSW.condition_code = 3
          /\ RaisedByStep(INT_OVERFLOW)]_vars

(* C18: a fetched word that is not eight decimal digits, the sentinels     *)
(* "PRIV_ERR", "ADDR_ERR" and "OVERFLOW" included, decodes to opcode -1,   *)
(* and its execution raises INT_INVALID_INSTRUCTION and changes neither    *)
(* AC, the condition code nor memory.                                      *)
C18_NotDecimalInvalid ==
    [][ExecStep /\ ~ IsDecimalWord(cpu_registers.IR)
       => /\ instr.opcode = -1
          /\ RaisedByStep(INT_INVALID_INSTRUCTION)
          /\ cpu_registers'.AC = cpu_registers.AC
          /\ cpu_registers'.PSW.condition_code = cpu_registers.PSW.condition_code
          /\ memory' = memory]_vars

(* C19: an instruction word of eight digits whose mode digit is none of    *)
(* 0, 1, 2 raises INT_INVALID_INSTRUCTION when executed, whatever its      *)
(* opcode, and changes neither memory nor any register.                    *)
C19_BadModeInvalid ==
    [][ExecStep /\ IsDecimalWord(cpu_registers.IR)
       /\ cpu_registers.IR[3] \notin {"0", "1", "2"}
       => /\ RaisedByStep(INT_INVALID_INSTRUCTION)
          /\ cpu_registers' = cpu_registers
          /\ memory' = memory
          /\ cpu_state' = cpu_state]_vars

(* C20: executing an opcode in 20..24, 37..39 or 46..99 raises             *)
(* INT_INVALID_INSTRUCTION and changes no register (fetch has written MAR, *)
(* MDR, IR and PC before), no memory cell, no field of the DMA controller  *)
(* and not the CPU state.                                                  *)
C20_ReservedInvalid ==
    [][ExecStep /\ instr.opcode \in ReservedOpcodes
       => /\ RaisedByStep(INT_INVALID_INSTRUCTION)
          /\ cpu_registers' = cpu_registers
          /\ memory' = memory
          /\ dma' = dma
          /\ cpu_state' = cpu_state]_vars

\* The pending flags the step leaves, apart from code c.
SameButFor(c) ==
    \A k \in (0..8) \ {c} : pending_interrupts'[k] = pending_interrupts[k]

\* What DIVI leaves when its operand o.operand is 0; o.m.raised is what the
\* read of the operand raised.
DivZeroLeaves(o) ==
    /\ cpu_registers'.AC = int_to_word(0)
    /\ cpu_registers'.PSW.condition_code = 0
    /\ cpu_state' = CPU_RUNNING
    /\ SameButFor(INT_INVALID_ADDRESS)
    /\ (o.m.raised = {} => pending_interrupts' = pending_interrupts)

DivZeroOwn(o) == o.operand = 0 => DivZeroLeaves(o)

DivZeroSilent(o) ==
    o.operand = 0
    => /\ cpu_registers'.AC = int_to_word(0)
       /\ cpu_registers'.PSW.condition_code = 0
       /\ cpu_state' = CPU_RUNNING
       /\ pending_interrupts' = pending_interrupts

(* C21: DIVI with operand 0 (immediate 0, or a memory operand that decodes *)
(* to 0) sets AC to the word for 0 and the condition code to 0, sets no    *)
(* pending bit and leaves the CPU RUNNING, for every prior AC.             *)
C21_DivZeroSilent ==
    [][ExecStep /\ instr.opcode = 3 => DivZeroSilent(Operand(M, instr))]_vars

(* C21 as amended: the same, except that when the read of the memory       *)
(* operand is refused by the memory unit, the INT_INVALID_ADDRESS of that  *)
(* read may be pending afterwards; no other pending bit changes.           *)
C21_DivZeroOwnSilent ==
    [][ExecStep /\ instr.opcode = 3
       => DivZeroOwn(Operand(M, instr))]_vars

\* DIVI #0 has been executed on AC = 7: AC and the condition code are 0.
C21_Witness ==
    /\ cpu_pc = "sweep"
    /\ instr.opcode = 3
    /\ instr.mode = ADDR_IMMEDIATE
    /\ instr.value = 0
    /\ cpu_registers.AC = ZERO_WORD
    /\ cpu_registers.PSW.condition_code = 0
    /\ \E k \in 1..3 : Cell(memory, LOAD_ADDRESS + k - 1) = Asm(4, 1, 7)
    /\ cpu_state = CPU_RUNNING

\* The handler of code i leaves kernel mode in force.
HandlerKeepsKernel(regs, i) ==
    interrupt_vector([regs EXCEPT !.PSW.operation_mode = KERNEL_MODE],
                     i).PSW.operation_mode = KERNEL_MODE

(* C30: after a CPU cycle whose sweep ran at least one handler the mode is *)
(* KERNEL, whatever the code and whatever the mode before: the sweep sets  *)
(* kernel mode before each handler, no handler leaves it, and nothing      *)
(* restores the mode that was in force.                                    *)
C30_KernelAfterDispatch ==
    /\ [](\A i \in 0..8 : HandlerKeepsKernel(cpu_registers, i))
    /\ [][/\ (cpu_pc = "sweep" /\ cpu_pc' = "clear"
               => cpu_registers'.PSW.operation_mode = KERNEL_MODE)
           /\ (cpu_pc = "sweep" /\ cpu_pc' = "fetch" /\ hist.disp # <<>>
               => cpu_registers'.PSW.operation_mode = KERNEL_MODE)]_vars

\* EI; LOAD #7; SWUSER; opcode 22: the cycle of the fourth word, executed
\* in user mode, has ended after the handler of the invalid instruction.
C30_Witness ==
    /\ cpu_pc = "fetch"
    /\ hist.cycles = 4
    /\ hist.disp = <<INT_INVALID_INSTRUCTION>>
    /\ instr.opcode = 22
    /\ Cell(memory, LOAD_ADDRESS + 2) = SWUSER
    /\ cpu_registers.PSW.operation_mode = KERNEL_MODE

\* The operand read through translation t fails: translation, physical
\* bounds or privilege.
ReadFaults(t) ==
    \/ t.phys < 0
    \/ t.phys >= MEMORY_SIZE
    \/ t.phys < OS_RESERVED /\ t.m.regs.PSW.operation_mode = USER_MODE

\* The instruction under execution with the immediate operand 0.
WithZeroOperand == [instr EXCEPT !.mode = ADDR_IMMEDIATE, !.value = 0]

\* The step leaves what the instruction with operand 0 leaves, run on the
\* machine as the failed read rd left it, and the CPU running.
AsIfZero(rd) ==
    /\ cpu_state' = CPU_RUNNING
    /\ memory' = memory
    /\ \A c \in Clobbers :
          /\ cpu_registers' = ExecOnMachine(rd.m, WithZeroOperand, c).regs
          /\ pending_interrupts' = ExecOnMachine(rd.m, WithZeroOperand, c).pend

(* C33: when the operand read of SUM, RES, MULT, DIVI, CMP, TST or MOV     *)
(* fails (translation, physical bounds or privilege) the instruction does  *)
(* what it does with operand 0, on top of what the memory unit raised, and *)
(* the CPU stays RUNNING.                                                  *)
C33_FailedOperandIsZero ==
    [][ExecStep /\ instr.opcode \in (0..3) \cup (6..8)
                /\ instr.mode # ADDR_IMMEDIATE
                /\ ReadFaults(logical_to_physical(M, instr.effective_address))
       => AsIfZero(read_memory(M, instr.effective_address))]_vars

\* EI; LOAD #400; STRL; CMP 30000: the operand lies beyond the region, the
\* read raised INT_INVALID_ADDRESS and the comparison was with 0.
C33_Witness ==
    /\ cpu_pc = "sweep"
    /\ instr.opcode = 6
    /\ instr.effective_address = 30000
    /\ word_to_int(cpu_registers.RL) = 400
    /\ word_to_int(cpu_registers.AC) = 400
    /\ cpu_registers.PSW.condition_code = 2
    /\ pending_interrupts[INT_INVALID_ADDRESS] = 1
    /\ cpu_state = CPU_RUNNING

\* The step executes opcode op in user mode.
UserStep(op) ==
    /\ ExecStep
    /\ instr.opcode = op
    /\ cpu_registers.PSW.operation_mode = USER_MODE

\* The step raises nothing and leaves memory and the CPU state alone.
Unchecked(res) ==
    /\ res.raised = {}
    /\ pending_interrupts' = pending_interrupts
    /\ memory' = memory
    /\ cpu_state' = CPU_RUNNING

(* C35: the mode and region instructions carry no privilege check.  In     *)
(* user mode SWKERN sets the mode to KERNEL, STRR puts AC in RB and STRL   *)
(* puts AC in RL, and none of them raises an interrupt; so a program in    *)
(* user mode can come to a state where its STR changes a cell of 0..299.   *)
C35_NoPrivilegeCheck ==
    [][/\ (UserStep(45)
           => /\ cpu_registers'.PSW.operation_mode = KERNEL_MODE
              /\ Unchecked(ExecOnMachine(M, instr, "keep")))
       /\ (UserStep(17)
           => /\ cpu_registers'.RB = cpu_registers.AC
              /\ Unchecked(ExecOnMachine(M, instr, "keep")))
       /\ (UserStep(19)
           => /\ cpu_registers'.RL = cpu_registers.AC
              /\ Unchecked(ExecOnMachine(M, instr, "keep")))
       /\ (ExecStep /\ instr.opcode = 5 /\ instr.effective_address = 100
                    /\ Cell(memory, LOAD_ADDRESS + 3) = Asm(45, 0, 0)
           => Cell(memory', 100) = cpu_registers.AC)]_vars

\* EI; LOAD #7; SWUSER; SWKERN; STR 100: the program entered user mode,
\* left it by itself, and its store has put 7 in cell 100; nothing is
\* pending.
C35_Witness ==
    /\ cpu_pc = "sweep"
    /\ instr.opcode = 5
    /\ Cell(memory, LOAD_ADDRESS) = EI
    /\ Cell(memory, LOAD_ADDRESS + 2) = SWUSER
    /\ Cell(memory, LOAD_ADDRESS + 3) = Asm(45, 0, 0)
    /\ Cell(memory, 100) = int_to_word(7)
    /\ Pending(pending_interrupts) = {}

\* Opcode 22 has been executed with interrupts enabled: the invalid
\* instruction is pending and the sweep has not begun.
C20_Witness ==
    /\ cpu_pc = "sweep"
    /\ sweep_i = 0
    /\ instr.opcode = 22
    /\ cpu_registers.PSW.interrupt_enabled = 1
    /\ pending_interrupts[INT_INVALID_INSTRUCTION] = 1
    /\ cpu_state = CPU_RUNNING

---------------------------------------------------------------------------
(* Further properties of the running machine (Spec) *)

\* Arguments the DMA requests refuse.
BadAddresses == {-1, MEMORY_SIZE, MEMORY_SIZE + 1}
BadLocations ==
    {<<-1, 0, 0>>, <<TRACKS, 0, 0>>, <<0, -1, 0>>, <<0, CYLINDERS, 0>>,
     <<0, 0, -1>>, <<0, 0, SECTORS_PER_CYLINDER>>, <<TRACKS, CYLINDERS, 5>>}
BadOperations == {-1, 2}
BadSizes == {-1, 0}

\* Each refused request, made on controller d with threads thrs, leaves both.
RefusedLeave(d, thrs) ==
    /\ \A a \in BadAddresses : dma_set_memory_address(d, a) = d
    /\ \A l \in BadLocations : dma_set_disk_location(d, l[1], l[2], l[3]) = d
    /\ \A o \in BadOperations : dma_set_io_operation(d, o) = d
    /\ \A n \in BadSizes : dma_set_transfer_size(d, n) = d
    /\ d.state # DMA_IDLE
       => \A created \in BOOLEAN :
             dma_start_transfer(d, thrs, created) = [dma |-> d, threads |-> thrs]

\* The fields of the controller the two setters of DMAR and DMAW leave alone.
BesidesTarget(d) ==
    <<d.disk_track, d.disk_cylinder, d.disk_sector, d.bytes_to_transfer, d.state,
      d.status, d.thread>>

(* C23: a refused DMA request changes nothing.  dma_set_memory_address     *)
(* with an address outside [0, 2000), dma_set_disk_location with a         *)
(* coordinate out of range, dma_set_io_operation with a value other than   *)
(* 0 and 1, dma_set_transfer_size with a size <= 0 and dma_start_transfer  *)
(* in a state other than IDLE leave every field of the controller as it    *)
(* was and start no thread: so for each request on every state the machine *)
(* reaches, and so for the instructions that make such requests.           *)
C23_RefusedIgnored ==
    /\ [] RefusedLeave(dma, threads)
    /\ [][cpu_pc = "execute" /\ cpu_pc' # "execute"
           => /\ (instr.opcode = 33 /\ instr.value <= 0
                   => dma' = dma /\ threads' = threads)
              /\ (instr.opcode = 32 /\ (instr.value \div 100) % 100 >= CYLINDERS
                   => dma' = dma /\ threads' = threads)
              /\ (instr.opcode \in 28..29 /\ instr.value >= MEMORY_SIZE
                   => dma'.memory_address = dma.memory_address)
              /\ (instr.opcode \in 28..29 /\ dma.state # DMA_IDLE
                   => threads' = threads /\ BesidesTarget(dma') = BesidesTarget(dma))]_vars

\* DMAZ 0, DMAC 99999 and DMAR 2000 have been executed, and the second
\* DMAR 2000 found the controller busy: the configuration is the initial
\* one and one thread was started.
C23_Witness ==
    /\ cpu_pc = "sweep"
    /\ hist.cycles = 4
    /\ instr.opcode = 28
    /\ instr.value = MEMORY_SIZE
    /\ Len(threads) = 1
    /\ dma.memory_address = 0
    /\ dma.bytes_to_transfer = 1
    /\ dma.disk_cylinder = 0
    /\ dma.state = DMA_READING
    /\ dma.status = 0

(* C24: after init_registers the register file holds AC = MAR = MDR = IR  *)
(* = RB = RX = PC = 0, RL = 1024, SP = 1023 and PSW = {condition code 0,   *)
(* kernel mode, interrupts disabled, PC_psw 0}.  The state before the      *)
(* console's run command is the one init_registers left.                   *)
C24_InitRegisters ==
    cpu_pc = "console"
    => /\ \A r \in {"AC", "MAR", "MDR", "IR", "RB", "RX", "PC"} :
             word_to_int(cpu_registers[r]) = 0
       /\ word_to_int(cpu_registers.RL) = 1024
       /\ word_to_int(cpu_registers.SP) = 1023
       /\ cpu_registers.PSW = [condition_code |-> 0, operation_mode |-> KERNEL_MODE,
                               interrupt_enabled |-> 0, PC_psw |-> 0]

(* C25: the bus mutex gives mutual exclusion among transfer threads: at    *)
(* most one of them is between dma_bus_request and dma_bus_release, it is  *)
(* the one the mutex names, and so the loops of two threads never          *)
(* interleave.                                                             *)
C25_BusExclusive ==
    /\ Cardinality(OnBus(threads)) <= 1
    /\ OnBus(threads) = IF bus_lock = 0 THEN {} ELSE {bus_lock}

\* Two threads are alive: one is in its loop after a first word, the other
\* waits in dma_bus_request.
C25_Witness ==
    /\ Len(threads) = 2
    /\ \E t \in 1..2 :
          /\ threads[t].pc \in {"loop", "store"}
          /\ threads[t].i >= 1
          /\ threads[3 - t].pc = "request"
          /\ bus_lock = t

\* The cells the transfer configured in d targets.
Targets(d) ==
    {a \in 0..(MEMORY_SIZE - 1) :
        a >= d.memory_address /\ a < d.memory_address + d.bytes_to_transfer}

(* C26: while a transfer thread holds the bus mutex it is the sole writer   *)
(* of the cells it targets: no instruction of the CPU changes one of them  *)
(* between the thread's dma_bus_request and its dma_bus_release.           *)
C26_SoleWriter ==
    [][cpu_pc = "execute" /\ cpu_pc' # "execute" /\ OnBus(threads) # {}
       => \A a \in Targets(dma) : Cell(memory', a) = Cell(memory, a)]_vars

\* The cells of the transfer configured in d hold the words read from disk.
Delivered(mem, d) ==
    \A i \in 0..(d.bytes_to_transfer - 1) :
        Cell(mem, d.memory_address + i)
            = dma_disk_read(d.disk_track, d.disk_cylinder, d.disk_sector + i)

\* Thread t leaves its loop and ends the transfer with IDLE and status 0.
Completes(t) ==
    /\ threads[t].pc \in {"loop", "finish"}
    /\ threads'[t].pc = "release"
    /\ dma'.state = DMA_IDLE
    /\ dma'.status = 0

(* C27: when a read from disk of n words to mem_addr completes with state  *)
(* IDLE and status 0, every physical cell mem_addr + i, 0 <= i < n, holds   *)
(* the payload generated for (track, cylinder, sector + i), whatever RB,   *)
(* RL and the mode were during the transfer.                               *)
C27_ReadDelivered ==
    [][\A t \in 1..Len(threads) :
          Completes(t) /\ dma.io_operation = 0 => Delivered(memory', dma')]_vars

\* Thread t takes a step.
Steps(t) == threads'[t] # threads[t]

\* The controller shows the failure of the transfer.
Failed(d) == d.state = DMA_ERROR /\ d.status = 1

\* The steps of thread t on a transfer that runs over the end of memory.
OverrunSteps(t) ==
    /\ threads[t].pc = "loop" /\ threads[t].i < dma.bytes_to_transfer
       /\ dma.memory_address + threads[t].i >= MEMORY_SIZE /\ Steps(t)
       => threads'[t].pc = "finish" /\ Failed(dma') /\ memory' = memory
    /\ threads[t].pc = "finish" /\ Steps(t)
       => threads'[t].pc = "release" /\ ~ threads'[t].ok /\ dma' = dma
    /\ threads[t].pc = "release" /\ ~ threads[t].ok /\ Steps(t)
       => threads'[t].pc = "trigger" /\ bus_lock' = 0 /\ dma' = dma
    /\ threads[t].pc = "trigger" /\ ~ threads[t].ok /\ Steps(t)
       => /\ threads'[t].pc = "done"
          /\ dma' = dma
          /\ cpu_registers.PSW.interrupt_enabled = 1
             => pending_interrupts'[INT_IO_COMPLETION] = 1

(* C28: a transfer with mem_addr + n > 2000 stops at the first index i     *)
(* with mem_addr + i >= 2000: the turn for that index stores nothing and   *)
(* sets state ERROR and status 1, the thread does not set them back, no    *)
(* cell at or beyond 2000 is ever written, and the thread goes on to       *)
(* release the bus and to trigger INT_IO_COMPLETION.                       *)
C28_OverrunStops ==
    /\ [](/\ DOMAIN memory \subseteq 0..(MEMORY_SIZE - 1)
          /\ \A t \in 1..Len(threads) : threads[t].pc = "finish" => Failed(dma))
    /\ [][\A t \in 1..Len(threads) : OverrunSteps(t)]_vars

\* The transfer of two words to 1999 is over: the first word is in cell
\* 1999, the controller shows the failure, the bus is free and the
\* completion is pending.
C28_Witness ==
    /\ Len(threads) = 1
    /\ threads[1].pc = "done"
    /\ ~ threads[1].ok
    /\ dma.memory_address = 1999
    /\ dma.bytes_to_transfer = 2
    /\ Failed(dma)
    /\ bus_lock = 0
    /\ Cell(memory, 1999) = dma_disk_read(0, 0, 0)
    /\ pending_interrupts[INT_IO_COMPLETION] = 1

(* C29: under fair scheduling every transfer thread that was started      *)
(* terminates: it acquires the bus, releases it and returns, and when it   *)
(* leaves its loop it leaves dma.state IDLE or ERROR; whether the CPU runs *)
(* or has halted, and whatever the CPU executes meanwhile.                 *)
C29_WorkersTerminate ==
    /\ \A t \in 1..MaxThreads :
          /\ (Len(threads) >= t /\ threads[t].pc = "request")
               ~> (Len(threads) >= t /\ bus_lock = t)
          /\ (Len(threads) >= t /\ bus_lock = t)
               ~> (Len(threads) >= t /\ bus_lock # t /\ threads[t].pc = "trigger")
          /\ (Len(threads) >= t) ~> (Len(threads) >= t /\ threads[t].pc = "done")
    /\ [][\A t \in 1..Len(threads) :
             threads[t].pc \in {"loop", "finish"} /\ threads'[t].pc = "release"
             => dma'.state \in {DMA_IDLE, DMA_ERROR}]_vars

\* Two threads were started, the CPU executed HALT and has left its loop,
\* and both threads have returned.
C29_Witness ==
    /\ Len(threads) = 2
    /\ cpu_state = CPU_HALTED
    /\ cpu_pc = "exit"
    /\ \A t \in 1..2 : threads[t].pc = "done"
    /\ bus_lock = 0
    /\ dma.state \in {DMA_IDLE, DMA_ERROR}

\* What the step of a jump leaves alone: AC, the condition code, SP and memory.
JumpFrame ==
    /\ cpu_registers'.AC = cpu_registers.AC
    /\ cpu_registers'.PSW.condition_code = cpu_registers.PSW.condition_code
    /\ cpu_registers'.SP = cpu_registers.SP
    /\ memory' = memory

(* C31: JEQ, JGT, JLT and JOV put the effective address in the program     *)
(* counter when the condition code is 0, 2, 1 and 3 respectively and leave *)
(* the counter at its value after the fetch otherwise; JMP always puts the *)
(* effective address there; AC, the condition code, SP and memory are      *)
(* unchanged.  The program counter is PSW.PC_psw, which the fetch reads.   *)
C31_JumpsToEA ==
    [][ExecStep /\ instr.opcode \in (9..12) \cup {27}
       => /\ JumpFrame
          /\ cpu_registers'.PSW.PC_psw
               = IF \/ instr.opcode = 27
                    \/ ShouldJump(instr.opcode, cpu_registers.PSW.condition_code)
                 THEN instr.effective_address
                 ELSE cpu_registers.PSW.PC_psw]_vars

\* The physical cell a write through logical address a comes to (-1: refused).
WritableAt(a) == write_memory_check(M, a).phys

\* The address the instruction being executed was fetched from.
FetchedFrom == word_to_int(cpu_registers.MAR)

\* CALL fetched from a, its stack cell writable: the cell takes a + 1 and SP
\* goes down by one.
CallPushes(sp, cell) ==
    cell >= 0 => /\ Cell(memory', cell) = int_to_word(FetchedFrom + 1)
                 /\ word_to_int(cpu_registers'.SP) = sp - 1

\* RET finding in its stack cell the word a CALL at a left there: the
\* program counter takes a + 1 and SP goes up by one.
RetPops(rd) ==
    \A a \in 0..(PC_PSW_MOD - 1) :
        rd.word = int_to_word(a + 1)
        => /\ cpu_registers'.PSW.PC_psw = a + 1
           /\ word_to_int(cpu_registers'.SP) = word_to_int(cpu_registers.SP) + 1

(* C32: CALL followed by RET is a round trip.  CALL at address a whose     *)
(* stack cell is writable leaves a + 1 in that cell and SP one lower; RET  *)
(* finding that word in the cell at SP + 1 puts a + 1 in the program       *)
(* counter and SP back one higher: with the cell not overwritten in        *)
(* between, the program counter is a + 1 and SP is what it was.            *)
C32_CallRetRoundTrip ==
    [][/\ (ExecStep /\ instr.opcode = 14
           => CallPushes(word_to_int(cpu_registers.SP),
                         WritableAt(word_to_int(cpu_registers.SP))))
       /\ (ExecStep /\ instr.opcode = 15
           => RetPops(read_memory(M, word_to_int(cpu_registers.SP) + 1)))]_vars

(* cpu_cycle called with the CPU stopped (SpecStopped): the steps of Spec  *)
(* and, once the run has returned to the console, calls of cpu_cycle.      *)

\* A call that goes on to the fetch whatever cpu_state is: what C34 rests on.
CpuCycleUnguarded ==
    /\ cpu_pc = "exit"
    /\ cpu_state # CPU_RUNNING
    /\ Fetched(fetch_instruction(M))
    /\ obs' = [op |-> "cpu_cycle"]
    /\ UNCHANGED <<hard_disk, dma, bus_lock, threads, cpu_state, cpu_pc, sweep_i, hist>>

\* cpu_cycle with cpu_state # CPU_RUNNING: the call returns at its first test.
CpuCycleStopped ==
    /\ cpu_pc = "exit"
    /\ cpu_state # CPU_RUNNING
    /\ obs' = [op |-> "cpu_cycle"]
    /\ UNCHANGED <<hard_disk, cpu_registers, memory, pending_interrupts, dma, bus_lock,
                   threads, cpu_state, cpu_pc, instr, sweep_i, hist>>

NextStopped ==
    \/ \E p \in Programs : execute_command_run(p)
    \/ CpuFetch
    \/ CpuExecute
    \/ CpuJoinReturn
    \/ SweepDispatch
    \/ SweepClear
    \/ CpuSweepEnd
    \/ CpuExit
    \/ CpuCycleStopped
    \/ \E t \in 1..Len(threads) : ThreadRequest(t)
    \/ \E t \in 1..Len(threads) : ThreadBegin(t)
    \/ \E t \in 1..Len(threads) : ThreadLoop(t)
    \/ \E t \in 1..Len(threads) : ThreadStore(t)
    \/ \E t \in 1..Len(threads) : ThreadFinish(t)
    \/ \E t \in 1..Len(threads) : ThreadRelease(t)
    \/ \E t \in 1..Len(threads) : ThreadTrigger(t)

SpecStopped == Init /\ [][NextStopped]_vars

\* The step is a call of cpu_cycle made with the CPU stopped.
StoppedCall == obs' # obs /\ obs'.op = "cpu_cycle"

\* No flag that is pending is cleared by the step.
FlagsKept == \A c \in 0..8 : pending_interrupts[c] # 0 => pending_interrupts'[c] # 0

(* C34: cpu_cycle called while cpu_state is not RUNNING changes nothing:   *)
(* registers (PSW included), memory, the DMA controller and the pending    *)
(* flags are as they were.  So once the cycle that executed HALT is over   *)
(* no handler runs and no pending flag is cleared, whatever the transfer   *)
(* threads raise meanwhile and however often cpu_cycle is called.          *)
C34_StoppedCycleNoOp ==
    [][/\ (StoppedCall
           => UNCHANGED <<cpu_registers, memory, dma, pending_interrupts,
                          cpu_state, threads, bus_lock>>)
       /\ (cpu_pc = "exit"
           => /\ cpu_state' # CPU_RUNNING
              /\ cpu_registers' = cpu_registers
              /\ hist'.disp = hist.disp
              /\ hist'.io = hist.io
              /\ FlagsKept)]_vars

\* EI; DMAR 600; ...; HALT: the transfer ended after the run did; its
\* completion is pending, cpu_cycle has been called, and no handler of
\* INT_IO_COMPLETION has ever run.
C34_Witness ==
    /\ cpu_pc = "exit"
    /\ cpu_state = CPU_HALTED
    /\ obs.op = "cpu_cycle"
    /\ Len(threads) = 1
    /\ threads[1].pc = "done"
    /\ pending_interrupts[INT_IO_COMPLETION] = 1
    /\ hist.io = 0

(* C36: DMAR or DMAW whose value field is outside 0..1999, executed with   *)
(* the controller IDLE, starts no transfer: no thread is created by the    *)
(* step (so no cell is written later on its behalf).                       *)
C36_BadAddressNoTransfer ==
    [][ExecStep /\ instr.opcode \in 28..29
                /\ instr.value \notin 0..(MEMORY_SIZE - 1)
                /\ dma.state = DMA_IDLE
       => threads' = threads]_vars

(* C37: no DMA transfer, from disk or to disk, changes the disk store:     *)
(* every sector of hard_disk.data holds what init_disk put there, after    *)
(* any sequence of DMA operations.                                         *)
C37_DiskUntouched ==
    \A loc \in DOMAIN hard_disk \cup DOMAIN init_disk :
        Sector(hard_disk, loc) = Sector(init_disk, loc)

\* DMAW 300; HALT: the transfer of the word at 300 to sector (0, 0, 0) has
\* ended well, and the sector still holds "00000000".
C37_Witness ==
    /\ Len(threads) = 1
    /\ threads[1].pc = "done"
    /\ dma.io_operation = 1
    /\ dma.memory_address = 300
    /\ dma.state = DMA_IDLE
    /\ dma.status = 0
    /\ Cell(memory, 300) = Asm(29, 0, 300)
    /\ Sector(hard_disk, <<0, 0, 0>>) = ZERO_WORD

(* C38: the DMA state ERROR is absorbing: once dma.state is ERROR it is    *)
(* ERROR in every later state, and no dma_start_transfer creates a thread  *)
(* from then on, in every interleaving of the CPU and the transfer         *)
(* threads.                                                                *)
C38_ErrorAbsorbing ==
    [][dma.state = DMA_ERROR
       => dma'.state = DMA_ERROR /\ Len(threads') = Len(threads)]_vars

\* Logical address la translates to no cell of the memory array.
Outside(la) == logical_to_physical(M, la).phys \notin 0..(MEMORY_SIZE - 1)

\* The words read_memory answers without reading a cell.
NoCellWords == {MEM_ERR_WORD, ADDR_ERR_WORD}

(* C39: no operation indexes the memory array outside 0..1999.  Every cell *)
(* ever written, by the CPU, the loader or a transfer thread, is one of    *)
(* 0..1999, and so is the cell a transfer thread is about to store into;   *)
(* a fetch or a load whose address translates outside the array gets the   *)
(* word read_memory answers without reading, and a store, push or call     *)
(* whose address translates outside leaves memory as it was: whatever the  *)
(* logical address (negative, beyond memory, indexed by AC), RB and RL,    *)
(* the mode and the configuration of the controller.                       *)
C39_InsideMemory ==
    /\ [](/\ DOMAIN memory \subseteq 0..(MEMORY_SIZE - 1)
          /\ \A t \in 1..Len(threads) :
                threads[t].pc = "store" => threads[t].phys \in 0..(MEMORY_SIZE - 1))
    /\ [][/\ (cpu_pc = "fetch" /\ cpu_pc' = "execute"
                 /\ Outside(cpu_registers.PSW.PC_psw)
              => cpu_registers'.IR \in NoCellWords)
          /\ (ExecStep /\ instr.opcode = 4 /\ instr.mode # ADDR_IMMEDIATE
                 /\ Outside(instr.effective_address)
              => cpu_registers'.AC \in NoCellWords)
          /\ (ExecStep /\ instr.opcode = 5 /\ Outside(instr.effective_address)
              => memory' = memory)
          /\ (ExecStep /\ instr.opcode \in {14, 25}
                 /\ Outside(word_to_int(cpu_registers.SP))
              => memory' = memory)]_vars

\* RES #5; STR 0(AC); LOAD 0(AC); STR 30000; LOAD 30000: the last load has
\* answered ADDR_ERR and no cell outside the array has been written.
C39_Witness ==
    /\ cpu_pc = "sweep"
    /\ hist.cycles = 5
    /\ instr.opcode = 4
    /\ instr.effective_address = 30000
    /\ Cell(memory, LOAD_ADDRESS + 1) = Asm(5, 2, 0)
    /\ cpu_registers.AC = ADDR_ERR_WORD
    /\ DOMAIN memory \subseteq 0..(MEMORY_SIZE - 1)

---------------------------------------------------------------------------
(* The memory unit on its own (SpecMem): calls of write_memory and         *)
(* read_memory from a single thread, between changes of the region and of  *)
(* the mode.                                                               *)

MemAddresses == {-1, 20, 300, 2000}
MemRegions == {<<0, 0>>, <<300, 10>>, <<0, 400>>, <<-10, 400>>, <<1800, 400>>}
MemWord == Asm(4, 1, 7)

InitUnit ==
    /\ cpu_registers = init_registers
    /\ memory = init_memory
    /\ pending_interrupts = init_interrupts
    /\ dma = init_dma
    /\ bus_lock = 0
    /\ threads = <<>>
    /\ cpu_state = CPU_RUNNING
    /\ cpu_pc = "unit"
    /\ instr = NoInstr
    /\ sweep_i = 0
    /\ obs = [op |-> "none"]
    /\ hist = InitHist
    /\ hard_disk = init_disk

(* What a call at logical address la left: t is its translation, m the     *)
(* machine after it and word what it returned (nothing for write_memory).  *)
Called(op, la, t, m, word) ==
    /\ Commit(m)
    /\ obs' = [op |-> op, la |-> la, phys |-> t.phys, traised |-> t.m.raised,
               raised |-> m.raised, word |-> word]

MemWrite(la) ==
    /\ cpu_pc = "unit"
    /\ Called("write_memory", la, logical_to_physical(M, la),
              write_memory(M, la, MemWord), <<>>)
    /\ UNCHANGED <<hard_disk, dma, bus_lock, threads, cpu_state, cpu_pc, instr, sweep_i, hist>>

ReadCalled(la, t, rd) == Called("read_memory", la, t, rd.m, rd.word)

MemRead(la) ==
    /\ cpu_pc = "unit"
    /\ ReadCalled(la, logical_to_physical(M, la), read_memory(M, la))
    /\ UNCHANGED <<hard_disk, dma, bus_lock, threads, cpu_state, cpu_pc, instr, sweep_i, hist>>

MemSetRegion(region) ==
    /\ cpu_pc = "unit"
    /\ cpu_registers' = set_memory_region(cpu_registers, region[1], region[2])
    /\ obs' = [op |-> "set_memory_region"]
    /\ UNCHANGED <<hard_disk, memory, pending_interrupts, dma, bus_lock, threads, cpu_state,
                   cpu_pc, instr, sweep_i, hist>>

\* Opcodes 44 and 45.
MemSetMode(mode) ==
    /\ cpu_pc = "unit"
    /\ cpu_registers' = [cpu_registers EXCEPT !.PSW.operation_mode = mode]
    /\ obs' = [op |-> "mode"]
    /\ UNCHANGED <<hard_disk, memory, pending_interrupts, dma, bus_lock, threads, cpu_state,
                   cpu_pc, instr, sweep_i, hist>>

\* Opcodes 42 and 43.
MemSetEnabled(enabled) ==
    /\ cpu_pc = "unit"
    /\ cpu_registers' = [cpu_registers EXCEPT !.PSW.interrupt_enabled = enabled]
    /\ obs' = [op |-> "enabled"]
    /\ UNCHANGED <<hard_disk, memory, pending_interrupts, dma, bus_lock, threads, cpu_state,
                   cpu_pc, instr, sweep_i, hist>>

NextMem ==
    \/ \E la \in MemAddresses : MemWrite(la)
    \/ \E la \in MemAddresses : MemRead(la)
    \/ \E region \in MemRegions : MemSetRegion(region)
    \/ \E mode \in {USER_MODE, KERNEL_MODE} : MemSetMode(mode)
    \/ \E enabled \in {0, 1} : MemSetEnabled(enabled)

SpecMem == InitUnit /\ [][NextMem]_vars

IsCall == obs.op \in {"write_memory", "read_memory"}
RBValue == word_to_int(cpu_registers.RB)
RLValue == word_to_int(cpu_registers.RL)

(* The call-level half of C1, which holds of write_memory taken as one     *)
(* step: a call made in user mode whose physical address is below          *)
(* OS_RESERVED leaves every cell as it was.                                *)
C1_CallRefused ==
    [][cpu_registers.PSW.operation_mode = USER_MODE
       => /\ \A a \in 0..(OS_RESERVED - 1) : Cell(memory', a) = Cell(memory, a)
          /\ (obs'.op = "write_memory" /\ obs'.phys \in 0..(OS_RESERVED - 1)
              => memory' = memory)]_vars

(* C6 as stated: whenever the translation raises no interrupt, the         *)
(* physical address lies in [RB, RB+RL), for every pair (RB, RL).          *)
C6_InRegion ==
    IsCall /\ obs.traised = {}
    => RBValue <= obs.phys /\ obs.phys < RBValue + RLValue

(* C6 amended: for every pair (RB, RL) other than (0, 0), whenever the     *)
(* translation raises no interrupt the physical address lies in            *)
(* [RB, RB+RL); with RB = RL = 0 the translation is the identity and       *)
(* raises no interrupt.                                                    *)
C6_InRegionOrIdentity ==
    IsCall
    => IF RBValue = 0 /\ RLValue = 0
       THEN obs.traised = {} /\ obs.phys = obs.la
       ELSE obs.traised = {}
            => RBValue <= obs.phys /\ obs.phys < RBValue + RLValue

\* C6: a translation under a region other than (0, 0) has gone through.
C6_Witness ==
    /\ IsCall
    /\ RBValue # 0
    /\ obs.traised = {}
    /\ obs.phys = obs.la + RBValue

\* The step is a call of read_memory or write_memory.
IsCallStep == obs'.op \in {"write_memory", "read_memory"}

(* C12: a read_memory or write_memory made in user mode whose physical     *)
(* address is a cell of the reserved area raises INT_INVALID_ADDRESS: with *)
(* interrupts enabled code 6 is pending on return, and read_memory returns *)
(* "PRIV_ERR".                                                             *)
C12_PrivilegeRaises ==
    [][/\ IsCallStep
       /\ cpu_registers.PSW.operation_mode = USER_MODE
       /\ obs'.phys \in 0..(OS_RESERVED - 1)
       => /\ INT_INVALID_ADDRESS \in obs'.raised
          /\ (cpu_registers.PSW.interrupt_enabled = 1
              => pending_interrupts'[INT_INVALID_ADDRESS] = 1)
          /\ (obs'.op = "read_memory" => obs'.word = PRIV_ERR_WORD)]_vars

\* C12: a user-mode read of a reserved cell, interrupts enabled, has returned.
C12_Witness ==
    /\ obs.op = "read_memory"
    /\ cpu_registers.PSW.operation_mode = USER_MODE
    /\ cpu_registers.PSW.interrupt_enabled = 1
    /\ obs.phys \in 0..(OS_RESERVED - 1)
    /\ obs.word = PRIV_ERR_WORD
    /\ pending_interrupts[INT_INVALID_ADDRESS] = 1

\* logical + RB lies outside [RB, RB+RL).
OutOfRegion(la, rb, rl) == la + rb < rb \/ la + rb >= rb + rl

(* C13: under a region other than (0, 0), a call whose logical + RB lies   *)
(* outside [RB, RB+RL) raises INT_INVALID_ADDRESS, returns "MEM_ERR" when  *)
(* it is a read, and leaves memory, AC and the condition code as they were.*)
C13_RegionViolation ==
    [][/\ IsCallStep
       /\ <<RBValue, RLValue>> # <<0, 0>>
       /\ OutOfRegion(obs'.la, RBValue, RLValue)
       => /\ INT_INVALID_ADDRESS \in obs'.raised
          /\ (obs'.op = "read_memory" => obs'.word = MEM_ERR_WORD)
          /\ memory' = memory
          /\ cpu_registers'.AC = cpu_registers.AC
          /\ cpu_registers'.PSW.condition_code = cpu_registers.PSW.condition_code]_vars

\* C13: RB = 300, RL = 10, read of logical 20 has returned "MEM_ERR".
C13_Witness ==
    /\ obs.op = "read_memory"
    /\ RBValue = 300 /\ RLValue = 10
    /\ obs.la = 20
    /\ obs.word = MEM_ERR_WORD
    /\ INT_INVALID_ADDRESS \in obs.raised

(* C14: a call whose physical address falls outside [0, 2000) raises       *)
(* INT_INVALID_ADDRESS, returns a sentinel when it is a read and writes    *)
(* nothing when it is a write.                                             *)
C14_BoundsRaises ==
    [][/\ IsCallStep
       /\ obs'.traised = {}
       /\ (obs'.phys < 0 \/ obs'.phys >= MEMORY_SIZE)
       => /\ INT_INVALID_ADDRESS \in obs'.raised
          /\ (obs'.op = "read_memory" => obs'.word \in {MEM_ERR_WORD, ADDR_ERR_WORD})
          /\ memory' = memory]_vars

---------------------------------------------------------------------------
(* The interrupt controller on its own (SpecInt): interrupts raised by the *)
(* CPU thread between sweeps and by a transfer thread at any time.         *)

\* The codes the CPU thread raises: the nine of the vector and one beyond
\* each end.
IntCodes == {-1, 0, 2, 4, 6, 8, 9}
\* The codes a transfer thread raises, through write_memory and at its end.
AsyncCodes == {INT_IO_COMPLETION, INT_INVALID_ADDRESS}

IntTrigger(code) ==
    /\ cpu_pc = "unit"
    /\ Commit(trigger_interrupt(M, code))
    /\ UNCHANGED <<hard_disk, dma, bus_lock, threads, cpu_state, cpu_pc, instr, sweep_i, obs,
                   hist>>

IntAsyncTrigger(code) ==
    /\ InSweep
    /\ Commit(trigger_interrupt(M, code))
    /\ hist' = Raised(hist, {code})
    /\ UNCHANGED <<hard_disk, dma, bus_lock, threads, cpu_state, cpu_pc, instr, sweep_i, obs>>

\* Opcodes 42 and 43.
IntSetEnabled(b) ==
    /\ cpu_pc = "unit"
    /\ cpu_registers' = [cpu_registers EXCEPT !.PSW.interrupt_enabled = b]
    /\ UNCHANGED <<hard_disk, memory, pending_interrupts, dma, bus_lock, threads, cpu_state,
                   cpu_pc, instr, sweep_i, obs, hist>>

\* handle_pending_interrupts is called.
IntSweepStart ==
    /\ cpu_pc = "unit"
    /\ cpu_pc' = "sweep"
    /\ sweep_i' = 0
    /\ hist' = SweepEntered(hist, pending_interrupts)
    /\ UNCHANGED <<hard_disk, cpu_registers, memory, pending_interrupts, dma, bus_lock,
                   threads, cpu_state, instr, obs>>

\* handle_pending_interrupts returns.
IntSweepEnd ==
    /\ cpu_pc = "sweep"
    /\ NextPending(pending_interrupts, sweep_i) = 9
    /\ cpu_pc' = "unit"
    /\ UNCHANGED <<hard_disk, cpu_registers, memory, pending_interrupts, dma, bus_lock,
                   threads, cpu_state, instr, sweep_i, obs, hist>>

NextInt ==
    \/ \E code \in IntCodes : IntTrigger(code)
    \/ \E code \in AsyncCodes : IntAsyncTrigger(code)
    \/ \E b \in {0, 1} : IntSetEnabled(b)
    \/ IntSweepStart
    \/ SweepDispatch
    \/ SweepClear
    \/ IntSweepEnd

SpecInt == InitUnit /\ [][NextInt]_vars

Range(f) == {f[k] : k \in 1..Len(f)}

(* C4: a sweep runs the handlers in strictly ascending order of code (so   *)
(* none twice), runs none for a code that was neither pending at its start *)
(* nor raised meanwhile, and has run all those pending at its start when   *)
(* it returns.                                                             *)
C4_SweepOrder ==
    /\ \A k \in 1..(Len(hist.disp) - 1) : hist.disp[k] < hist.disp[k + 1]
    /\ Range(hist.disp) \subseteq hist.S \cup hist.during
    /\ ~ InSweep => hist.S \subseteq Range(hist.disp)

\* C4: a sweep that started with three codes pending has returned.
C4_Witness ==
    /\ cpu_pc = "unit"
    /\ Cardinality(hist.S) >= 3
    /\ Len(hist.disp) >= 3

\* What trigger_interrupt(code) leaves in m, called with pend pending.
Latches(m, pend, code) ==
    IF cpu_registers.PSW.interrupt_enabled = 1
    THEN m.pend = [pend EXCEPT ![code] = 1]
    ELSE m.pend = pend

\* The codes the handlers of the sweep have run exactly once.
RunOnce(disp) == {c \in 0..8 : Cardinality({k \in 1..Len(disp) : disp[k] = c}) = 1}

(* C22: for every code in 0..8, trigger_interrupt(code) sets pending[code] *)
(* and leaves the other flags alone when interrupts are enabled, and       *)
(* leaves the whole array alone when they are not; a flag set stays set    *)
(* until the sweep, however often the code is triggered again, and the     *)
(* sweep runs the handler of each code pending at its start exactly once.  *)
C22_TriggerLatch ==
    /\ [](\A code \in 0..8 :
            Latches(trigger_interrupt(M, code), pending_interrupts, code))
    /\ [][/\ (cpu_pc = "unit" /\ cpu_pc' = "unit"
               => \A c \in Pending(pending_interrupts) : pending_interrupts'[c] = 1)
           /\ (cpu_pc = "unit" /\ cpu_pc' = "sweep"
               => hist'.S = Pending(pending_interrupts))
           /\ (cpu_pc = "sweep" /\ cpu_pc' = "clear"
               => sweep_i' \notin Range(hist.disp))
           /\ (cpu_pc = "sweep" /\ cpu_pc' = "unit"
               => hist.S \subseteq RunOnce(hist.disp))]_vars

\* Two codes latched between sweeps, with interrupts enabled, have each been
\* run once by the sweep that followed, which has returned.
C22_Witness ==
    /\ cpu_pc = "unit"
    /\ hist.S = {INT_SYSCALL, INT_OVERFLOW}
    /\ hist.disp = <<INT_SYSCALL, INT_OVERFLOW>>
    /\ Pending(pending_interrupts) = {}
    /\ cpu_registers.PSW.interrupt_enabled = 1

---------------------------------------------------------------------------
(* The word codec on its own (SpecCodec) *)

\* The small values are -MaxSmall..MaxSmall.
MaxSmall == 40

CodecInputs ==
    (-MaxSmall..MaxSmall)
    \cup {WORD_MAX, - WORD_MAX, WORD_MAX - 1, 1 - WORD_MAX, WORD_MAX + 1,
          - WORD_MAX - 1, 1234567, -1234567, 1000000, -1000000, 65536, -32768,
          123456789, -123456789, INT_MAX, - INT_MAX, INT_MIN}

InitCodec ==
    /\ cpu_registers = init_registers
    /\ memory = init_memory
    /\ pending_interrupts = init_interrupts
    /\ dma = init_dma
    /\ bus_lock = 0
    /\ threads = <<>>
    /\ cpu_state = CPU_RUNNING
    /\ cpu_pc = "unit"
    /\ instr = NoInstr
    /\ sweep_i = 0
    /\ obs \in {[op |-> "input", v |-> v] : v \in CodecInputs}
    /\ hist = InitHist
    /\ hard_disk = init_disk

Converted(v, w) == obs' = [op |-> "codec", v |-> v, w |-> w, back |-> word_to_int(w)]

\* word_to_int(int_to_word(v))
CodecConvert ==
    /\ obs.op = "input"
    /\ \E clobber \in Clobbers : Converted(obs.v, int_to_word_ub(obs.v, clobber))
    /\ UNCHANGED <<hard_disk, cpu_registers, memory, pending_interrupts, dma, bus_lock,
                   threads, cpu_state, cpu_pc, instr, sweep_i, hist>>

NextCodec == CodecConvert

SpecCodec == InitCodec /\ [][NextCodec]_vars

(* C7: word_to_int(int_to_word(v)) = v for v in -9999999..9999999, and for *)
(* any other v int_to_word(v) is "OVERFLOW", which word_to_int takes to 0. *)
C7_RoundTrip ==
    obs.op = "codec"
    => IF - WORD_MAX <= obs.v /\ obs.v <= WORD_MAX
       THEN obs.back = obs.v
       ELSE obs.w = OVERFLOW_WORD /\ obs.back = 0

=============================================================================
